---------------------------- MODULE Spec2Model ----------------------------
(*
  State-machine model of the mengla collection backend.

  Subsystems (each has its own next-state relation and specification;
  the variables a specification does not drive stay at their initial values):

    SpecBreaker   infra/resilience.py   CircuitBreaker
    SpecQueue     core/queue.py + scheduler.run_crawl_queue_once + admin cancel-all
    SpecPressure  core/client.py        RequestPressure + MengLaService.query
    SpecDedup     core/domain.py        query_mengla / _fetch_mengla_data, with the
                                        breaker that guards it and the
                                        service.query of its fetch tasks
    SpecCache     infra/cache.py        CacheManager.get / set called directly,
                                        with expiry of L1 and L2 entries
    SpecTrend     core/domain.py        query_mengla for industryTrendRange up to
                                        the Mongo lookup of the range
    SpecSync      core/sync_task_log.py + the scheduler's job functions
                                        (overlap guard, checkpoints, cancel)

  Every await of the asyncio code is a point where another coroutine may run,
  so every action below is the code between two awaits (or one atomic
  Mongo/Redis command, or one critical section of an asyncio.Lock).
*)
EXTENDS Integers, Sequences, FiniteSets, TLC

(***************************************************************************)
(* Bounds of the model                                                     *)
(***************************************************************************)
\* number of clock ticks explored after the start time
Horizon == 5
\* number of concurrent callers of CircuitBreaker.call
NumCbCallers == 2
\* breaker configuration (CB_FAILURE_THRESHOLD, CB_SUCCESS_THRESHOLD,
\* CB_TIMEOUT, CB_HALF_OPEN_CALLS are environment-overridable; small values)
FailureThreshold == 2
SuccessThreshold == 2
CbTimeout == 2
HalfOpenMaxCalls == 2
\* crawl queue: jobs created, subtasks enumerated per job, concurrent workers
NumJobs == 1
SubsPerJob == 2
NumWorkers == 2
\* request pressure: concurrent callers of MengLaService.query, the largest
\* MAX_INFLIGHT_REQUESTS the environment may set, the longest timeout_seconds
NumPCallers == 3
MaxInflightMax == 2
MaxTimeoutSeconds == 1
\* query path: concurrent callers of query_mengla and distinct request keys
NumQCallers == 2
NumKeys == 2
\* sync task log: concurrent starts of job functions, and the iterations
\* (categories) of each checkpointed loop
NumSyncStarters == 2
NumCats == 2
\* cache manager: direct callers, and the operations each of them performs
NumMCallers == 2
MaxOps == 2
\* trend query: the largest number of period keys in a requested range
MaxTrendKeys == 3
\* MengLaService.query's timeout_seconds
WebhookTimeout == 2
NumRecCallers == 2
MaxRecords == 3
MaxDay == 32
MaxAttempts == 3
JobItems == 2
AlertHorizon == 6

(***************************************************************************)
(* Program constants                                                       *)
(***************************************************************************)
\* max_retries of the queue workers: the limit of a subtask's attempts
MaxSubtaskAttempts == 3
\* MengLaService.MIN_REQUEST_INTERVAL (seconds)
MIN_REQUEST_INTERVAL == 5
\* Optional[float] None of _last_failure_time
NoTime == -1

\* time.time() at process start: far more than MIN_REQUEST_INTERVAL after 0.0
StartTime == MIN_REQUEST_INTERVAL
MaxTime == StartTime + Horizon

VARIABLES
    now,            \* time.time(), in whole seconds
    \* ---- circuit breaker ----
    cb,             \* the CircuitBreaker object's fields
    cbPc,           \* per caller of call(): "idle" | "running"
    cbEvent,        \* ghost: the last breaker operation, its outcome, and a toggle per operation
    consecFailures, \* ghost: failures recorded in CLOSED since the last success/close/reset
    openedAt,       \* ghost: time of the last transition into OPEN (NoTime if none)
    lastFailureAt,  \* ghost: time of the last record_failure (NoTime if none/reset)
    episodeAdmitted,  \* ghost: calls admitted in the current HALF_OPEN episode
    episodeSuccesses, \* ghost: successes recorded in the current HALF_OPEN episode
    \* ---- crawl queue ----
    jobs,           \* collection crawl_jobs: job id -> document ("NONE": not inserted)
    subs,           \* collection crawl_subtasks: subtask id -> document
    crPc,           \* create_crawl_job per job: "start" | "subs" | "total" | "done"
    crTotal,        \* create_crawl_job's local `total`
    wPc,            \* run_crawl_queue_once per worker: position
    wJob,           \* worker's local job_id (0: none)
    wSub,           \* worker's claimed subtask (0: none)
    adminPc,        \* cancel_all_background_tasks: "idle" | "subs"
    claimCount,     \* ghost: claim calls that returned each subtask
    successCount,   \* ghost: set_subtask_success calls made for each subtask
    \* ---- request pressure and request interval ----
    pressure,       \* RequestPressure singleton (max_inflight = 0: not created)
    semValue,       \* free permits of RequestPressure._sem
    lastRequestTime,\* MengLaService._last_request_time
    pPc,            \* MengLaService.query per caller: position
    pWakeAt,        \* time the caller's sleep ends / its polling deadline
    pFlag,          \* query's is_timeout / is_error: "none" | "timeout" | "error"
    prevPostAt,     \* ghost: start time of the execute POST before the last one
    lastPostAt,     \* ghost: start time of the last execute POST
    \* ---- query path (query_mengla, _fetch_mengla_data) ----
    qPc,            \* query_mengla per caller: position
    qKey,           \* the caller's request key (0: not started)
    qGot,           \* value the caller's last store read returned / its result
    qAwait,         \* task the caller awaits (0: none; its own id: it created it)
    qOutcome,       \* how the call ended: source, "error" or "rejected"
    l1,             \* L1Cache: key -> "none" | "empty" | "data"
    redisData,      \* Redis data keys: key -> "none" | "empty" | "data"
    mongoData,      \* Mongo documents of the data collection, by key
    mongoRows,      \* number of documents of the data collection, by key
    IN_FLIGHT,      \* domain.IN_FLIGHT: key -> registered task (0: none)
    taskPc,         \* _fetch_and_persist task created by each caller: position
    taskRes,        \* the task's upstream result: "none" | "empty" | "data"
    taskGot,        \* value the task's find_one (existing_again) returned
    executes,       \* ghost: execute POSTs started per key
    cold,           \* ghost: the key's callers overlap and its upstream returned data
    \* ---- sync task log (scheduler job functions, cancel_sync_task) ----
    syncLogs,       \* collection sync_task_logs: log id -> row ("NONE": not inserted)
    cancelled_logs, \* sync_task_log._cancelled_logs
    sPc,            \* job function per start: position
    sFn,            \* which job function the start runs ("none": not started)
    sPhase,         \* the loop the job is in (1: first)
    sCat,           \* the iteration of that loop (index into top_cat_ids)
    sFailed,        \* the job's stats/failed count is above 0
    sResult,        \* how the job returned
    cPc,            \* cancel_sync_task: "idle" | "mark" | "find"
    cLog,           \* cancel_sync_task's log_id (0: none)
    cancelOk,       \* ghost: log ids for which cancel_sync_task returned success
    iterAfterCancel,\* ghost: iterations begun after that success, per log id
    \* ---- cache manager called directly ----
    mPc,            \* CacheManager.get / set per caller: position
    mKey,           \* the identity the caller works on (0: not chosen yet)
    mVal,           \* the value the caller's read returned / the value it sets
    mPend,          \* writes of the caller's set that are still to take effect
    mHist,          \* ghost: the operations the caller has returned from
    mDist,          \* ghost: an expiry or another caller's write hit the caller's identity
    \* ---- industryTrendRange query ----
    trDocs,         \* mengla_data documents of the trend range: period key -> "none" | "empty" | "data"
    trPc,           \* query_mengla for the trend action: position
    trN,            \* number of period keys of the requested range
    trByKey,        \* by_key: the documents the find returned
    trRet,          \* the tuple _fetch_mengla_data returned
    trOutcome,      \* how query_mengla ended
    \* ---- webhook rendezvous ----
    execKey,        \* Redis key mengla:exec:<execution_id>: "none" | "heartbeat" | "real"
    whLast,         \* ghost: the last POST to the webhook, its answer, and a toggle per POST
    lastStored,     \* ghost: the value of the webhook's last SET
    realStored,     \* ghost: a real result was SET while the dispatcher polled, before its deadline
    lostReal,       \* ghost: the dispatcher's DELETE of a stale value removed a real result
    dPc,            \* MengLaService.query's polling loop: position
    dData,          \* the value its last GET returned
    dDeadline,      \* its deadline
    dOutcome,       \* what query returned or raised
    \* ---- metrics collector ----
    _metrics,       \* MetricsCollector._metrics
    _daily_metrics, \* MetricsCollector._daily_metrics: day -> CollectMetrics
    mcLock,         \* MetricsCollector._lock: its holder (0: free)
    mcPc,           \* record_success / record_failure per caller: "idle" | "daily"
    mcSuccess,      \* the caller records a success
    mcDate,         \* the caller's date_key
    today,          \* the day of datetime.utcnow()
    \* ---- retry around the breaker ----
    rPc,            \* retry_async: position
    rBudget,        \* _max_attempts
    rAttempt,       \* attempt of the for loop
    rWakeAt,        \* time its sleep ends
    rOutcome,       \* how retry_async ended
    rUpstreamFailures, \* ghost: failures of func during this call
    rCircuitFailures,  \* ghost: record_failure calls made during this call
    \* ---- scheduler job functions: exception paths ----
    jPc,            \* the job function: position
    jFn,            \* which job function runs
    jItem,          \* the item it works on
    jLast,          \* the result of the item's step as the job sees it
    jFailedRecorded,\* items recorded as failed
    jStepFailures,  \* ghost: steps that failed
    jOutcome,       \* how the job function ended
    \* ---- alert rule high_latency ----
    alFiring,       \* AlertRule.is_firing
    alLastTriggered,\* AlertRule.last_triggered (NoTime: None)
    alLastValue,    \* AlertRule.last_value, in milliseconds
    alSeq,          \* ghost: a toggle per check
    alNow,           \* datetime.utcnow(), in units of 300 seconds
    \* ---- L1Cache called directly ----
    _cache,         \* L1Cache._cache: key -> value
    _hits,          \* L1Cache._hits
    _misses,        \* L1Cache._misses
    l1Got,          \* the value the last get returned
    l1Latest,       \* ghost: per identity, the value of the last set that no delete or clear followed
    l1Op,            \* ghost: the last operation, its identity, and a toggle per operation
    \* ---- period_keys_in_range ----
    pkGranularity,  \* the granularity of the last call ("none": no call yet)
    pkStart,        \* its start_date
    pkEnd,          \* its end_date
    pkKeys,          \* the list it returned
    \* ---- writers of the durable store ----
    docWriter,       \* ghost: the query whose write put the document of each key (0: none)
    \* ---- in-flight table by request parameters ----
    fPc,            \* _fetch_mengla_data per caller, from the in-flight step: position
    fReq,           \* the caller's keyword arguments
    fAwait,         \* the task the caller awaits (0: none; its own number: it created it)
    fTask,          \* the task each caller created: "none" | "running" | "done"
    fGot,           \* ghost: the arguments of the upstream call whose result the caller received
    inflightTable   \* domain.IN_FLIGHT: request key -> registered task

breakerVars == <<cb, cbPc, cbEvent, consecFailures, openedAt, lastFailureAt,
                 episodeAdmitted, episodeSuccesses>>

queueVars == <<jobs, subs, crPc, crTotal, wPc, wJob, wSub, adminPc,
               claimCount, successCount>>

pressureVars == <<pressure, semValue, lastRequestTime, pPc, pWakeAt, pFlag,
                  prevPostAt, lastPostAt>>

dedupVars == <<qPc, qKey, qGot, qAwait, qOutcome, l1, redisData, mongoData, mongoRows,
               IN_FLIGHT, taskPc, taskRes, taskGot, executes, cold>>

syncVars == <<syncLogs, cancelled_logs, sPc, sFn, sPhase, sCat, sFailed, sResult,
              cPc, cLog, cancelOk, iterAfterCancel>>

cacheVars == <<mPc, mKey, mVal, mPend, mHist, mDist>>

trendVars == <<trDocs, trPc, trN, trByKey, trRet, trOutcome>>

webVars == <<execKey, whLast, lastStored, realStored, lostReal, dPc, dData, dDeadline,
             dOutcome>>

\* the variables of the subsystems declared after the cache manager
metricsVars == <<_metrics, _daily_metrics, mcLock, mcPc, mcSuccess, mcDate, today>>

retryVars == <<rPc, rBudget, rAttempt, rWakeAt, rOutcome, rUpstreamFailures,
               rCircuitFailures>>

jobsVars == <<jPc, jFn, jItem, jLast, jFailedRecorded, jStepFailures, jOutcome>>

alertVars == <<alFiring, alLastTriggered, alLastValue, alSeq, alNow>>

l1cVars == <<_cache, _hits, _misses, l1Got, l1Latest, l1Op>>

periodVars == <<pkGranularity, pkStart, pkEnd, pkKeys>>

docVars == <<docWriter>>

inflightVars == <<fPc, fReq, fAwait, fTask, fGot, inflightTable>>

laterVars == <<trendVars, webVars, metricsVars, retryVars, jobsVars, alertVars, l1cVars, periodVars, docVars, inflightVars>>
exceptTrend == <<webVars, metricsVars, retryVars, jobsVars, alertVars, l1cVars, periodVars, docVars, inflightVars>>
exceptWeb == <<trendVars, metricsVars, retryVars, jobsVars, alertVars, l1cVars, periodVars, docVars, inflightVars>>
exceptMetrics == <<trendVars, webVars, retryVars, jobsVars, alertVars, l1cVars, periodVars, docVars, inflightVars>>
exceptRetry == <<trendVars, webVars, metricsVars, jobsVars, alertVars, l1cVars, periodVars, docVars, inflightVars>>
exceptJobs == <<trendVars, webVars, metricsVars, retryVars, alertVars, l1cVars, periodVars, docVars, inflightVars>>
exceptAlert == <<trendVars, webVars, metricsVars, retryVars, jobsVars, l1cVars, periodVars, docVars, inflightVars>>
exceptL1c == <<trendVars, webVars, metricsVars, retryVars, jobsVars, alertVars, periodVars, docVars, inflightVars>>
exceptPeriod == <<trendVars, webVars, metricsVars, retryVars, jobsVars, alertVars, l1cVars, docVars, inflightVars>>
exceptDoc == <<trendVars, webVars, metricsVars, retryVars, jobsVars, alertVars, l1cVars, periodVars, inflightVars>>
exceptInflight == <<trendVars, webVars, metricsVars, retryVars, jobsVars, alertVars, l1cVars, periodVars, docVars>>

vars == <<now, breakerVars, queueVars, pressureVars, dedupVars, syncVars, cacheVars,
          laterVars>>

(***************************************************************************)
(* Clock                                                                   *)
(***************************************************************************)
Tick ==
    /\ now < MaxTime
    /\ now' = now + 1

(***************************************************************************)
(* infra/resilience.py : CircuitBreaker                                    *)
(***************************************************************************)
CbCallers == 1..NumCbCallers

CircuitBreakerInit ==
    [state |-> "CLOSED", failure_count |-> 0, success_count |-> 0,
     last_failure_time |-> NoTime, half_open_calls |-> 0]

\* _check_state that forgets to reset _success_count on OPEN -> HALF_OPEN
CheckStateKeepSuccess(b, t) ==
    CASE b.state = "CLOSED" -> [allowed |-> TRUE, cb |-> b]
      [] b.state = "OPEN" ->
            IF b.last_failure_time # NoTime /\ t - b.last_failure_time >= CbTimeout
            THEN [allowed |-> TRUE,
                  cb |-> [b EXCEPT !.state = "HALF_OPEN",
                                   !.half_open_calls = 0]]
            ELSE [allowed |-> FALSE, cb |-> b]
      [] b.state = "HALF_OPEN" ->
            IF b.half_open_calls < HalfOpenMaxCalls
            THEN [allowed |-> TRUE,
                  cb |-> [b EXCEPT !.half_open_calls = b.half_open_calls + 1]]
            ELSE [allowed |-> FALSE, cb |-> b]

\* _check_state whose timeout test is strict (elapsed > timeout)
CheckStateStrict(b, t) ==
    CASE b.state = "CLOSED" -> [allowed |-> TRUE, cb |-> b]
      [] b.state = "OPEN" ->
            IF b.last_failure_time # NoTime /\ t - b.last_failure_time > CbTimeout
            THEN [allowed |-> TRUE,
                  cb |-> [b EXCEPT !.state = "HALF_OPEN",
                                   !.half_open_calls = 0,
                                   !.success_count = 0]]
            ELSE [allowed |-> FALSE, cb |-> b]
      [] b.state = "HALF_OPEN" ->
            IF b.half_open_calls < HalfOpenMaxCalls
            THEN [allowed |-> TRUE,
                  cb |-> [b EXCEPT !.half_open_calls = b.half_open_calls + 1]]
            ELSE [allowed |-> FALSE, cb |-> b]

\* CircuitBreaker._check_state at time t: whether the call may pass, and the
\* breaker afterwards
CheckState(b, t) ==
    CASE b.state = "CLOSED" -> [allowed |-> TRUE, cb |-> b]
      [] b.state = "OPEN" ->
            IF b.last_failure_time # NoTime /\ t - b.last_failure_time >= CbTimeout
            THEN [allowed |-> TRUE,
                  cb |-> [b EXCEPT !.state = "HALF_OPEN",
                                   !.half_open_calls = 0,
                                   !.success_count = 0]]
            ELSE [allowed |-> FALSE, cb |-> b]
      [] b.state = "HALF_OPEN" ->
            IF b.half_open_calls < HalfOpenMaxCalls
            THEN [allowed |-> TRUE,
                  cb |-> [b EXCEPT !.half_open_calls = b.half_open_calls + 1]]
            ELSE [allowed |-> FALSE, cb |-> b]

\* CircuitBreaker.record_success
RecordSuccess(b) ==
    CASE b.state = "HALF_OPEN" ->
            IF b.success_count + 1 >= SuccessThreshold
            THEN [b EXCEPT !.state = "CLOSED", !.failure_count = 0, !.success_count = 0]
            ELSE [b EXCEPT !.success_count = b.success_count + 1]
      [] b.state = "CLOSED" -> [b EXCEPT !.failure_count = 0]
      [] OTHER -> b

\* record_failure that opens only after more than failure_threshold failures
RecordFailureLate(b, t) ==
    LET b1 == [b EXCEPT !.last_failure_time = t] IN
    CASE b.state = "HALF_OPEN" -> [b1 EXCEPT !.state = "OPEN", !.half_open_calls = 0]
      [] b.state = "CLOSED" ->
            IF b.failure_count + 1 > FailureThreshold
            THEN [b1 EXCEPT !.failure_count = b.failure_count + 1, !.state = "OPEN"]
            ELSE [b1 EXCEPT !.failure_count = b.failure_count + 1]
      [] OTHER -> b1

\* CircuitBreaker.record_failure at time t
RecordFailure(b, t) ==
    LET b1 == [b EXCEPT !.last_failure_time = t] IN
    CASE b.state = "HALF_OPEN" -> [b1 EXCEPT !.state = "OPEN", !.half_open_calls = 0]
      [] b.state = "CLOSED" ->
            IF b.failure_count + 1 >= FailureThreshold
            THEN [b1 EXCEPT !.failure_count = b.failure_count + 1, !.state = "OPEN"]
            ELSE [b1 EXCEPT !.failure_count = b.failure_count + 1]
      [] OTHER -> b1

\* CircuitBreaker.reset
Reset(b) ==
    [state |-> "CLOSED", failure_count |-> 0, success_count |-> 0,
     last_failure_time |-> NoTime, half_open_calls |-> 0]

\* ghost bookkeeping shared by the breaker actions: b is the breaker before,
\* b2 after, op the operation, adm whether a call was admitted
BreakerGhosts(b, b2, op, adm) ==
    /\ cbEvent' = [op |-> op, admitted |-> adm, seq |-> 1 - cbEvent.seq]
    /\ consecFailures' =
          IF b2.state = "CLOSED" /\ (b.state # "CLOSED" \/ op \in {"success", "reset"})
          THEN 0
          ELSE IF op = "failure" /\ b.state = "CLOSED" THEN consecFailures + 1
          ELSE consecFailures
    /\ openedAt' =
          IF op = "reset" THEN NoTime
          ELSE IF b2.state = "OPEN" /\ b.state # "OPEN" THEN now
          ELSE openedAt
    /\ lastFailureAt' =
          IF op = "reset" THEN NoTime
          ELSE IF op = "failure" THEN now
          ELSE lastFailureAt
    /\ episodeAdmitted' =
          IF b2.state # "HALF_OPEN" THEN 0
          ELSE IF op = "call" /\ adm THEN (IF b.state = "HALF_OPEN" THEN episodeAdmitted ELSE 0) + 1
          ELSE episodeAdmitted
    /\ episodeSuccesses' =
          IF op = "success" /\ b.state = "HALF_OPEN" THEN episodeSuccesses + 1
          ELSE IF b.state = "HALF_OPEN" /\ b2.state = "HALF_OPEN" THEN episodeSuccesses
          ELSE 0

\* CircuitBreaker.call, first half: _check_state, then either raise
\* CircuitBreakerError (the caller stays idle) or start the wrapped function
CbCall(c) ==
    /\ cbPc[c] = "idle"
    /\ LET r == CheckState(cb, now) IN
         /\ cb' = r.cb
         /\ cbPc' = [cbPc EXCEPT ![c] = IF r.allowed THEN "running" ELSE "idle"]
         /\ BreakerGhosts(cb, r.cb, "call", r.allowed)
    /\ UNCHANGED <<now, queueVars, pressureVars, dedupVars, syncVars, cacheVars, laterVars>>

\* CircuitBreaker.call, second half: the wrapped function returned
CbReturnSuccess(c) ==
    /\ cbPc[c] = "running"
    /\ cb' = RecordSuccess(cb)
    /\ cbPc' = [cbPc EXCEPT ![c] = "idle"]
    /\ BreakerGhosts(cb, RecordSuccess(cb), "success", FALSE)
    /\ UNCHANGED <<now, queueVars, pressureVars, dedupVars, syncVars, cacheVars, laterVars>>

\* CircuitBreaker.call, second half: the wrapped function raised an Exception
CbReturnFailure(c) ==
    /\ cbPc[c] = "running"
    /\ cb' = RecordFailure(cb, now)
    /\ cbPc' = [cbPc EXCEPT ![c] = "idle"]
    /\ BreakerGhosts(cb, RecordFailure(cb, now), "failure", FALSE)
    /\ UNCHANGED <<now, queueVars, pressureVars, dedupVars, syncVars, cacheVars, laterVars>>

\* CircuitBreaker.call, second half: the awaiting task is cancelled;
\* asyncio.CancelledError is not an Exception, so nothing is recorded
CbCancelled(c) ==
    /\ cbPc[c] = "running"
    /\ cbPc' = [cbPc EXCEPT ![c] = "idle"]
    /\ cb' = cb
    /\ BreakerGhosts(cb, cb, "cancel", FALSE)
    /\ UNCHANGED <<now, queueVars, pressureVars, dedupVars, syncVars, cacheVars, laterVars>>

\* CircuitBreakerManager.reset_all -> CircuitBreaker.reset
CbReset ==
    /\ cb' = Reset(cb)
    /\ cbPc' = cbPc
    /\ BreakerGhosts(cb, Reset(cb), "reset", FALSE)
    /\ UNCHANGED <<now, queueVars, pressureVars, dedupVars, syncVars, cacheVars, laterVars>>

BreakerInit ==
    /\ cb = CircuitBreakerInit
    /\ cbPc = [c \in CbCallers |-> "idle"]
    /\ cbEvent = [op |-> "none", admitted |-> FALSE, seq |-> 0]
    /\ consecFailures = 0
    /\ openedAt = NoTime
    /\ lastFailureAt = NoTime
    /\ episodeAdmitted = 0
    /\ episodeSuccesses = 0

(***************************************************************************)
(* core/queue.py, scheduler.run_crawl_queue_once, admin cancel-all         *)
(***************************************************************************)
JobIds == 1..NumJobs
SubIds == 1..(NumJobs * SubsPerJob)
Workers == 1..NumWorkers

\* the job a planned subtask belongs to (subtasks of job j are enumerated
\* by the loops of create_crawl_job)
JobOf(s) == ((s - 1) \div SubsPerJob) + 1
PlannedSubs(j) == {s \in SubIds : JobOf(s) = j}

\* documents of crawl_subtasks of job j with one of the given statuses
SubsWithStatus(j, sts) == {s \in PlannedSubs(j) : subs[s].status \in sts}

\* create_crawl_job: insert the parent document (status PENDING, stats 0)
CreateJobInsertParent(j) ==
    /\ crPc[j] = "start"
    /\ \A i \in JobIds : i < j => crPc[i] # "start"
    /\ jobs' = [jobs EXCEPT ![j] = [status |-> "PENDING", total_subtasks |-> 0,
                                    completed |-> 0, failed |-> 0]]
    /\ crPc' = [crPc EXCEPT ![j] = "subs"]
    /\ UNCHANGED <<subs, crTotal, wPc, wJob, wSub, adminPc, claimCount, successCount>>

\* create_crawl_job: insert the next subtask document (status PENDING, attempts 0)
CreateJobInsertSubtask(j) ==
    /\ crPc[j] = "subs"
    /\ crTotal[j] < SubsPerJob
    /\ LET s == (j - 1) * SubsPerJob + crTotal[j] + 1 IN
         subs' = [subs EXCEPT ![s] = [status |-> "PENDING", attempts |-> 0]]
    /\ crTotal' = [crTotal EXCEPT ![j] = crTotal[j] + 1]
    /\ UNCHANGED <<jobs, crPc, wPc, wJob, wSub, adminPc, claimCount, successCount>>

\* create_crawl_job: the loops are done
CreateJobLoopDone(j) ==
    /\ crPc[j] = "subs"
    /\ crTotal[j] = SubsPerJob
    /\ crPc' = [crPc EXCEPT ![j] = "total"]
    /\ UNCHANGED <<jobs, subs, crTotal, wPc, wJob, wSub, adminPc, claimCount, successCount>>

\* create_crawl_job: update_one sets stats.total_subtasks
CreateJobSetTotal(j) ==
    /\ crPc[j] = "total"
    /\ jobs' = [jobs EXCEPT ![j].total_subtasks = crTotal[j]]
    /\ crPc' = [crPc EXCEPT ![j] = "done"]
    /\ UNCHANGED <<subs, crTotal, wPc, wJob, wSub, adminPc, claimCount, successCount>>

\* get_next_job: the oldest job that is RUNNING or PENDING
NextJobCandidates ==
    LET open == {j \in JobIds : jobs[j].status \in {"RUNNING", "PENDING"}} IN
    {j \in open : \A i \in open : j <= i}

\* run_crawl_queue_once: get_next_job; return when there is none
WorkerGetNextJob(w) ==
    /\ wPc[w] = "idle"
    /\ IF NextJobCandidates = {}
       THEN UNCHANGED <<wPc, wJob>>
       ELSE \E j \in NextJobCandidates :
              /\ wJob' = [wJob EXCEPT ![w] = j]
              /\ wPc' = [wPc EXCEPT ![w] = "claim"]
    /\ UNCHANGED <<jobs, subs, crPc, crTotal, wSub, adminPc, claimCount, successCount>>

\* claim that also matches subtasks already RUNNING (no status precondition
\* that excludes claimed subtasks)
ClaimableSubtasksLoose(j) == SubsWithStatus(j, {"PENDING", "RUNNING"})

\* claim that takes FAILED subtasks again
ClaimableSubtasksRetryFailed(j) == SubsWithStatus(j, {"PENDING", "FAILED"})

\* claim_next_subtask's filter {job_id, status: PENDING}
ClaimableSubtasks(j) == SubsWithStatus(j, {"PENDING"})

\* claim_subtasks(job_id, limit=1): one find_one_and_update moves a PENDING
\* subtask to RUNNING with attempts + 1 and returns it; no subtask claimed:
\* the for loop is empty and finish_job_if_done follows
WorkerClaim(w) ==
    /\ wPc[w] = "claim"
    /\ IF ClaimableSubtasks(wJob[w]) = {}
       THEN /\ wPc' = [wPc EXCEPT ![w] = "finish"]
            /\ UNCHANGED <<subs, wSub, claimCount>>
       ELSE \E s \in ClaimableSubtasks(wJob[w]) :
              /\ subs' = [subs EXCEPT ![s] = [status |-> "RUNNING",
                                              attempts |-> subs[s].attempts + 1]]
              /\ wSub' = [wSub EXCEPT ![w] = s]
              /\ claimCount' = [claimCount EXCEPT ![s] = claimCount[s] + 1]
              /\ wPc' = [wPc EXCEPT ![w] = "query"]
    /\ UNCHANGED <<jobs, crPc, crTotal, wJob, adminPc, successCount>>

\* run_crawl_queue_once: query_mengla returned
WorkerQueryOk(w) ==
    /\ wPc[w] = "query"
    /\ wPc' = [wPc EXCEPT ![w] = "success"]
    /\ UNCHANGED <<jobs, subs, crPc, crTotal, wJob, wSub, adminPc, claimCount, successCount>>

\* run_crawl_queue_once: query_mengla raised
WorkerQueryRaised(w) ==
    /\ wPc[w] = "query"
    /\ wPc' = [wPc EXCEPT ![w] = "failed"]
    /\ UNCHANGED <<jobs, subs, crPc, crTotal, wJob, wSub, adminPc, claimCount, successCount>>

\* set_subtask_success: update_one by _id, whatever the status is
WorkerSetSuccess(w) ==
    /\ wPc[w] = "success"
    /\ subs' = [subs EXCEPT ![wSub[w]].status = "SUCCESS"]
    /\ successCount' = [successCount EXCEPT ![wSub[w]] = successCount[wSub[w]] + 1]
    /\ wPc' = [wPc EXCEPT ![w] = "inc_completed"]
    /\ UNCHANGED <<jobs, crPc, crTotal, wJob, wSub, adminPc, claimCount>>

\* set_subtask_failed: update_one by _id, whatever the status is
WorkerSetFailed(w) ==
    /\ wPc[w] = "failed"
    /\ subs' = [subs EXCEPT ![wSub[w]].status = "FAILED"]
    /\ wPc' = [wPc EXCEPT ![w] = "inc_failed"]
    /\ UNCHANGED <<jobs, crPc, crTotal, wJob, wSub, adminPc, claimCount, successCount>>

\* inc_job_stats that stores the delta ($set) instead of adding it ($inc)
WorkerIncStatsSet(w) ==
    /\ wPc[w] \in {"inc_completed", "inc_failed"}
    /\ jobs' = [jobs EXCEPT ![wJob[w]] =
                  IF wPc[w] = "inc_completed"
                  THEN [@ EXCEPT !.completed = 1]
                  ELSE [@ EXCEPT !.failed = 1]]
    /\ wPc' = [wPc EXCEPT ![w] = "finish"]
    /\ UNCHANGED <<subs, crPc, crTotal, wJob, wSub, adminPc, claimCount, successCount>>

\* inc_job_stats(job_id, completed_delta, failed_delta)
WorkerIncStats(w) ==
    /\ wPc[w] \in {"inc_completed", "inc_failed"}
    /\ jobs' = [jobs EXCEPT ![wJob[w]] =
                  IF wPc[w] = "inc_completed"
                  THEN [@ EXCEPT !.completed = @ + 1]
                  ELSE [@ EXCEPT !.failed = @ + 1]]
    /\ wPc' = [wPc EXCEPT ![w] = "finish"]
    /\ UNCHANGED <<subs, crPc, crTotal, wJob, wSub, adminPc, claimCount, successCount>>

\* finish_job_if_done: count PENDING + RUNNING subtasks; return if any
WorkerFinishCountOpen(w) ==
    /\ wPc[w] = "finish"
    /\ IF SubsWithStatus(wJob[w], {"PENDING", "RUNNING"}) # {}
       THEN /\ wPc' = [wPc EXCEPT ![w] = "idle"]
            /\ wJob' = [wJob EXCEPT ![w] = 0]
            /\ wSub' = [wSub EXCEPT ![w] = 0]
       ELSE /\ wPc' = [wPc EXCEPT ![w] = "finish_failed"]
            /\ UNCHANGED <<wJob, wSub>>
    /\ UNCHANGED <<jobs, subs, crPc, crTotal, adminPc, claimCount, successCount>>

\* finish_job_if_done: count FAILED subtasks
WorkerFinishCountFailed(w) ==
    /\ wPc[w] = "finish_failed"
    /\ wPc' = [wPc EXCEPT ![w] =
                 IF SubsWithStatus(wJob[w], {"FAILED"}) # {}
                 THEN "finish_set_failed" ELSE "finish_set_completed"]
    /\ UNCHANGED <<jobs, subs, crPc, crTotal, wJob, wSub, adminPc, claimCount, successCount>>

\* finish_job_if_done: update_one by _id sets the job FAILED or COMPLETED
WorkerFinishSetStatus(w) ==
    /\ wPc[w] \in {"finish_set_failed", "finish_set_completed"}
    /\ jobs' = [jobs EXCEPT ![wJob[w]].status =
                  IF wPc[w] = "finish_set_failed" THEN "FAILED" ELSE "COMPLETED"]
    /\ wPc' = [wPc EXCEPT ![w] = "idle"]
    /\ wJob' = [wJob EXCEPT ![w] = 0]
    /\ wSub' = [wSub EXCEPT ![w] = 0]
    /\ UNCHANGED <<subs, crPc, crTotal, adminPc, claimCount, successCount>>

\* cancel_all_background_tasks: update_many marks RUNNING/PENDING jobs CANCELLED
AdminCancelJobs ==
    /\ adminPc = "idle"
    /\ jobs' = [j \in JobIds |->
                  IF jobs[j].status \in {"RUNNING", "PENDING"}
                  THEN [jobs[j] EXCEPT !.status = "CANCELLED"] ELSE jobs[j]]
    /\ adminPc' = "subs"
    /\ UNCHANGED <<subs, crPc, crTotal, wPc, wJob, wSub, claimCount, successCount>>

\* cancel_all_background_tasks: update_many marks RUNNING/PENDING subtasks FAILED
AdminCancelSubtasks ==
    /\ adminPc = "subs"
    /\ subs' = [s \in SubIds |->
                  IF subs[s].status \in {"RUNNING", "PENDING"}
                  THEN [subs[s] EXCEPT !.status = "FAILED"] ELSE subs[s]]
    /\ adminPc' = "idle"
    /\ UNCHANGED <<jobs, crPc, crTotal, wPc, wJob, wSub, claimCount, successCount>>

QueueInit ==
    /\ jobs = [j \in JobIds |-> [status |-> "NONE", total_subtasks |-> 0,
                                 completed |-> 0, failed |-> 0]]
    /\ subs = [s \in SubIds |-> [status |-> "NONE", attempts |-> 0]]
    /\ crPc = [j \in JobIds |-> "start"]
    /\ crTotal = [j \in JobIds |-> 0]
    /\ wPc = [w \in Workers |-> "idle"]
    /\ wJob = [w \in Workers |-> 0]
    /\ wSub = [w \in Workers |-> 0]
    /\ adminPc = "idle"
    /\ claimCount = [s \in SubIds |-> 0]
    /\ successCount = [s \in SubIds |-> 0]

(***************************************************************************)
(* Claims about the crawl queue (checked under SpecQueue)                  *)
(***************************************************************************)
\* C3 (atomic claim): no subtask is ever returned by more than one claim call,
\* and none is marked SUCCESS by more than one claim's worker.
C3_AtomicClaim ==
    \A s \in SubIds : claimCount[s] <= 1 /\ successCount[s] <= 1

\* C3 witness: two workers hold claims at the same time, on different
\* subtasks of the same job, and one of them has already marked its subtask
C3_Witness ==
    \E w1, w2 \in Workers :
        /\ w1 # w2
        /\ wJob[w1] = wJob[w2] /\ wJob[w1] # 0
        /\ wSub[w1] # 0 /\ wSub[w2] # 0 /\ wSub[w1] # wSub[w2]
        /\ wPc[w1] = "inc_completed" /\ wPc[w2] \in {"query", "success"}
        /\ claimCount[wSub[w1]] = 1 /\ claimCount[wSub[w2]] = 1

\* C10 (as claimed): every status change of a crawl subtask is
\* PENDING -> RUNNING, RUNNING -> SUCCESS or RUNNING -> FAILED.
C10_MonotoneSubtaskLifecycle ==
    [][ \A s \in SubIds :
          (subs[s].status # "NONE" /\ subs'[s].status # subs[s].status)
             => <<subs[s].status, subs'[s].status>> \in
                  {<<"PENDING", "RUNNING">>, <<"RUNNING", "SUCCESS">>,
                   <<"RUNNING", "FAILED">>}
      ]_vars

\* C11 (as claimed): a crawl job's status only changes PENDING -> RUNNING and
\* RUNNING -> COMPLETED | FAILED | CANCELLED (so a finished job never changes
\* again), and a job is no longer PENDING once one of its subtasks is claimed.
C11_MonotoneParentLifecycle ==
    /\ [](\A s \in SubIds : claimCount[s] > 0 => jobs[JobOf(s)].status # "PENDING")
    /\ [][ \A j \in JobIds :
             (jobs[j].status # "NONE" /\ jobs'[j].status # jobs[j].status)
                => <<jobs[j].status, jobs'[j].status>> \in
                     {<<"PENDING", "RUNNING">>, <<"RUNNING", "COMPLETED">>,
                      <<"RUNNING", "FAILED">>, <<"RUNNING", "CANCELLED">>}
         ]_vars

\* C12 (as claimed): a job that is COMPLETED or FAILED has no PENDING or
\* RUNNING subtask, and it is FAILED exactly when one of its subtasks is FAILED.
C12_ParentCompletionRule ==
    \A j \in JobIds :
        jobs[j].status \in {"COMPLETED", "FAILED"} =>
            /\ SubsWithStatus(j, {"PENDING", "RUNNING"}) = {}
            /\ (jobs[j].status = "FAILED") <=> (SubsWithStatus(j, {"FAILED"}) # {})

\* C36 (as claimed): whatever the interleaving of create_crawl_job with the
\* workers' ticks, a job is never COMPLETED or FAILED while a subtask of its
\* plan is still to be inserted or is PENDING (so no subtask is left behind
\* unclaimed).
C36_NoStrandedSubtasks ==
    \A j \in JobIds :
        jobs[j].status \in {"COMPLETED", "FAILED"} =>
            \A s \in PlannedSubs(j) : subs[s].status \notin {"NONE", "PENDING"}

PCallers == 1..NumPCallers

\* positions of query between a completed pressure.acquire() and release()
InsidePcs == {"interval", "sleeping", "lookup", "post", "polling", "release"}

Inside == {p \in PCallers : pPc[p] \in InsidePcs}

\* get_request_pressure / RequestPressure.__init__: max_inflight is read from
\* MAX_INFLIGHT_REQUESTS; _semaphore creates Semaphore(max_inflight)
CreatePressure ==
    /\ pressure.max_inflight = 0
    /\ \E n \in 1..MaxInflightMax :
         /\ pressure' = [pressure EXCEPT !.max_inflight = n]
         /\ semValue' = n
    /\ UNCHANGED <<lastRequestTime, pPc, pWakeAt, pFlag, prevPostAt, lastPostAt>>

\* a semaphore that lets a caller through without a free permit
PermitAvailableLoose == semValue >= 0

\* asyncio.Semaphore.acquire returns only with a permit
PermitAvailable == semValue > 0

\* RequestPressure.acquire up to its first suspension: _waiting += 1, then
\* Semaphore.acquire, which returns at once when a permit is free (the finally
\* block follows without an await) and suspends the caller otherwise
PAcquireEnter(p) ==
    /\ pPc[p] = "start"
    /\ pressure.max_inflight # 0
    /\ IF PermitAvailable
       THEN /\ semValue' = semValue - 1
            /\ pressure' = [pressure EXCEPT !.inflight = @ + 1, !.total_sent = @ + 1]
            /\ pPc' = [pPc EXCEPT ![p] = "interval"]
       ELSE /\ pressure' = [pressure EXCEPT !.waiting = @ + 1]
            /\ pPc' = [pPc EXCEPT ![p] = "waiting"]
            /\ UNCHANGED semValue
    /\ UNCHANGED <<lastRequestTime, pWakeAt, pFlag, prevPostAt, lastPostAt>>

\* RequestPressure.acquire resumed: the suspended caller gets a permit, then
\* the finally block moves it from waiting to inflight
PAcquire(p) ==
    /\ pPc[p] = "waiting"
    /\ PermitAvailable
    /\ semValue' = semValue - 1
    /\ pressure' = [pressure EXCEPT !.waiting = @ - 1, !.inflight = @ + 1,
                                    !.total_sent = @ + 1]
    /\ pPc' = [pPc EXCEPT ![p] = "interval"]
    /\ UNCHANGED <<lastRequestTime, pWakeAt, pFlag, prevPostAt, lastPostAt>>

\* the caller is cancelled while it waits for the semaphore: the finally block
\* of acquire still runs, and query's try block is never entered
PCancelWaiting(p) ==
    /\ pPc[p] = "waiting"
    /\ pressure' = [pressure EXCEPT !.waiting = @ - 1, !.inflight = @ + 1,
                                    !.total_sent = @ + 1]
    /\ pPc' = [pPc EXCEPT ![p] = "done"]
    /\ UNCHANGED <<semValue, lastRequestTime, pWakeAt, pFlag, prevPostAt, lastPostAt>>

\* _wait_for_interval up to its await: sleep when the last request is recent,
\* else stamp _last_request_time at once
PWaitForInterval(p) ==
    /\ pPc[p] = "interval"
    /\ LET diff == now - lastRequestTime IN
         IF diff < MIN_REQUEST_INTERVAL
         THEN /\ pWakeAt' = [pWakeAt EXCEPT ![p] = now + (MIN_REQUEST_INTERVAL - diff)]
              /\ pPc' = [pPc EXCEPT ![p] = "sleeping"]
              /\ UNCHANGED lastRequestTime
         ELSE /\ lastRequestTime' = now
              /\ pPc' = [pPc EXCEPT ![p] = "lookup"]
              /\ UNCHANGED pWakeAt
    /\ UNCHANGED <<pressure, semValue, pFlag, prevPostAt, lastPostAt>>

\* _wait_for_interval after asyncio.sleep: _last_request_time = time.time()
PWake(p) ==
    /\ pPc[p] = "sleeping"
    /\ now >= pWakeAt[p]
    /\ lastRequestTime' = now
    /\ pPc' = [pPc EXCEPT ![p] = "lookup"]
    /\ UNCHANGED <<pressure, semValue, pWakeAt, pFlag, prevPostAt, lastPostAt>>

\* _get_collect_task_id returns the task id, or raises
PLookup(p) ==
    /\ pPc[p] = "lookup"
    /\ \E ok \in BOOLEAN :
         IF ok
         THEN pPc' = [pPc EXCEPT ![p] = "post"] /\ UNCHANGED pFlag
         ELSE /\ pPc' = [pPc EXCEPT ![p] = "release"]
              /\ pFlag' = [pFlag EXCEPT ![p] = "error"]
    /\ UNCHANGED <<pressure, semValue, lastRequestTime, pWakeAt, prevPostAt, lastPostAt>>

\* _request_mengla starts the execute POST; it returns an executionId and
\* query computes its deadline from timeout_seconds, or the POST fails
PPost(p) ==
    /\ pPc[p] = "post"
    /\ prevPostAt' = lastPostAt
    /\ lastPostAt' = now
    /\ \/ \E ts \in 1..MaxTimeoutSeconds :
            /\ pWakeAt' = [pWakeAt EXCEPT ![p] = now + ts]
            /\ pPc' = [pPc EXCEPT ![p] = "polling"]
            /\ UNCHANGED pFlag
       \/ /\ pPc' = [pPc EXCEPT ![p] = "release"]
          /\ pFlag' = [pFlag EXCEPT ![p] = "error"]
          /\ UNCHANGED pWakeAt
    /\ UNCHANGED <<pressure, semValue, lastRequestTime>>

\* query's poll loop finds the webhook result before the deadline
PResult(p) ==
    /\ pPc[p] = "polling"
    /\ now < pWakeAt[p]
    /\ pPc' = [pPc EXCEPT ![p] = "release"]
    /\ UNCHANGED <<pressure, semValue, lastRequestTime, pWakeAt, pFlag, prevPostAt, lastPostAt>>

\* query's poll loop ends at the deadline: TimeoutError
PTimeout(p) ==
    /\ pPc[p] = "polling"
    /\ now >= pWakeAt[p]
    /\ pPc' = [pPc EXCEPT ![p] = "release"]
    /\ pFlag' = [pFlag EXCEPT ![p] = "timeout"]
    /\ UNCHANGED <<pressure, semValue, lastRequestTime, pWakeAt, prevPostAt, lastPostAt>>

\* the caller is cancelled at an await inside query's try block:
\* CancelledError is not an Exception, so only the finally block runs
PCancelInside(p) ==
    /\ pPc[p] \in {"sleeping", "lookup", "polling"}
    /\ pPc' = [pPc EXCEPT ![p] = "release"]
    /\ UNCHANGED <<pressure, semValue, lastRequestTime, pWakeAt, pFlag, prevPostAt, lastPostAt>>

\* a query whose finally block skips release() after a webhook-wait timeout
PReleaseSkipOnTimeout(p) ==
    /\ pPc[p] = "release"
    /\ IF pFlag[p] = "timeout"
       THEN UNCHANGED <<pressure, semValue>>
       ELSE /\ pressure' = [pressure EXCEPT
                              !.inflight = IF @ - 1 > 0 THEN @ - 1 ELSE 0,
                              !.total_completed = @ + 1,
                              !.total_error = IF pFlag[p] = "error" THEN @ + 1 ELSE @]
            /\ semValue' = semValue + 1
    /\ pPc' = [pPc EXCEPT ![p] = "done"]
    /\ UNCHANGED <<lastRequestTime, pWakeAt, pFlag, prevPostAt, lastPostAt>>

\* RequestPressure.release from query's finally block
PRelease(p) ==
    /\ pPc[p] = "release"
    /\ pressure' = [pressure EXCEPT
                      !.inflight = IF @ - 1 > 0 THEN @ - 1 ELSE 0,
                      !.total_completed = @ + 1,
                      !.total_timeout = IF pFlag[p] = "timeout" THEN @ + 1 ELSE @,
                      !.total_error = IF pFlag[p] = "error" THEN @ + 1 ELSE @]
    /\ semValue' = semValue + 1
    /\ pPc' = [pPc EXCEPT ![p] = "done"]
    /\ UNCHANGED <<lastRequestTime, pWakeAt, pFlag, prevPostAt, lastPostAt>>

PressureInit ==
    /\ pressure = [max_inflight |-> 0, inflight |-> 0, waiting |-> 0,
                   total_sent |-> 0, total_completed |-> 0,
                   total_timeout |-> 0, total_error |-> 0]
    /\ semValue = 0
    /\ lastRequestTime = 0
    /\ pPc = [p \in PCallers |-> "start"]
    /\ pWakeAt = [p \in PCallers |-> 0]
    /\ pFlag = [p \in PCallers |-> "none"]
    /\ prevPostAt = NoTime
    /\ lastPostAt = NoTime

(***************************************************************************)
(* Claims about request pressure (checked under SpecPressure)              *)
(***************************************************************************)
\* C4 (bounded upstream concurrency): the callers between a completed
\* pressure.acquire() and their release() never number more than
\* MAX_INFLIGHT_REQUESTS.
C4_BoundedInflight ==
    pressure.max_inflight # 0 => Cardinality(Inside) <= pressure.max_inflight

\* C4 witness: every permit is taken by a caller inside the critical section
\* while another caller has entered acquire and waits
C4_Witness ==
    /\ pressure.max_inflight = MaxInflightMax
    /\ Cardinality(Inside) = pressure.max_inflight
    /\ \E p \in PCallers : pPc[p] = "waiting"
    /\ \E p \in PCallers : pPc[p] = "polling"

\* C5 (as claimed): two successive execute POSTs start at least
\* MIN_REQUEST_INTERVAL apart.
C5_PostGapAtLeastInterval ==
    prevPostAt # NoTime => lastPostAt - prevPostAt >= MIN_REQUEST_INTERVAL

\* C25 (slot release): the permits taken from the semaphore are exactly those
\* of the callers between acquire() and release(), so no exit path keeps or
\* returns a permit twice; a caller leaves that section only by one release(),
\* which returns one permit and counts one completion; and a caller whose wait
\* ended with TimeoutError (is_timeout) counts one total_timeout at its
\* release, any other caller none.
C25_SlotReleasedOnce ==
    /\ [](pressure.max_inflight # 0
            => semValue + Cardinality(Inside) = pressure.max_inflight)
    /\ [][\A p \in PCallers :
            (pPc[p] \in InsidePcs /\ pPc'[p] \notin InsidePcs)
                => /\ pPc'[p] = "done"
                   /\ semValue' = semValue + 1
                   /\ pressure'.total_completed = pressure.total_completed + 1
                   /\ pressure'.total_timeout =
                        pressure.total_timeout + (IF pFlag[p] = "timeout" THEN 1 ELSE 0)]_vars
    /\ [](pressure.total_timeout =
            Cardinality({p \in PCallers : pPc[p] = "done" /\ pFlag[p] = "timeout"}))

\* C39 (as claimed): the pressure counters are consistent in every reachable
\* state, also when a caller is cancelled while it waits in acquire():
\* 0 <= inflight <= max_inflight, waiting >= 0, total_sent = total_completed +
\* inflight, and inflight is the number of semaphore permits held.
C39_PressureCountersConsistent ==
    pressure.max_inflight > 0 =>
        /\ 0 <= pressure.inflight /\ pressure.inflight <= pressure.max_inflight
        /\ pressure.waiting >= 0
        /\ pressure.total_sent = pressure.total_completed + pressure.inflight
        /\ pressure.inflight = pressure.max_inflight - semValue

\* C25 witness: one caller's wait timed out and another's call ended with an
\* error; both have released, the timeout is counted once and every permit is
\* back
C25_Witness ==
    /\ \E p \in PCallers : pPc[p] = "done" /\ pFlag[p] = "timeout"
    /\ \E p \in PCallers : pPc[p] = "done" /\ pFlag[p] = "error"
    /\ pressure.total_timeout = 1
    /\ pressure.total_completed >= 2
    /\ semValue = pressure.max_inflight
    /\ Inside = {}

(***************************************************************************)
(* core/domain.py: query_mengla and _fetch_mengla_data for a non-trend     *)
(* list action (high / hot / chance); every caller uses the same action,   *)
(* so one breaker "mengla_{action}" guards them, and keys differ by period *)
(***************************************************************************)
QCallers == 1..NumQCallers
Keys == 1..NumKeys

\* replace_one as if it were an insert_one
RowsAfterUpsertInsert(n) == n + 1

\* number of documents of an identity after replace_one(filter, doc,
\* upsert=True): one is inserted only if none matches the filter
RowsAfterUpsert(n) == IF n = 0 THEN 1 ELSE n

\* a dedup step that never finds the registered task
ExistingTaskNone(k) == 0

\* IN_FLIGHT.get(request_key)
ExistingTask(k) == IN_FLIGHT[k]

\* tasks created for key k that have not finished
Outstanding(k) ==
    {t \in QCallers : qKey[t] = k /\ taskPc[t] \notin {"none", "done", "raised"}}

\* query_mengla starts: cache_manager.get looks in L1, then asks Redis (L2)
QStart(c) ==
    /\ qPc[c] = "idle"
    /\ \E k \in Keys :
         /\ qKey' = [qKey EXCEPT ![c] = k]
         /\ cold' = [cold EXCEPT ![k] =
                       @ /\ ~(\E d \in QCallers : qKey[d] = k /\ qPc[d] = "done")]
         /\ IF l1[k] # "none"
            THEN /\ qPc' = [qPc EXCEPT ![c] = "done"]
                 /\ qGot' = [qGot EXCEPT ![c] = l1[k]]
                 /\ qOutcome' = [qOutcome EXCEPT ![c] = "l1"]
            ELSE /\ qPc' = [qPc EXCEPT ![c] = "l2_get"]
                 /\ UNCHANGED <<qGot, qOutcome>>
    /\ UNCHANGED <<qAwait, l1, redisData, mongoData, mongoRows, IN_FLIGHT, taskPc, taskRes,
                   taskGot, executes>>
    /\ UNCHANGED breakerVars

\* Redis serves L2Cache.get
QL2Read(c) ==
    /\ qPc[c] = "l2_get"
    /\ qGot' = [qGot EXCEPT ![c] = redisData[qKey[c]]]
    /\ qPc' = [qPc EXCEPT ![c] = "l2_ret"]
    /\ UNCHANGED <<qKey, qAwait, qOutcome, l1, redisData, mongoData, mongoRows, IN_FLIGHT,
                   taskPc, taskRes, taskGot, executes, cold>>
    /\ UNCHANGED breakerVars

\* cache_manager.get after L2: a hit is promoted to L1, a miss asks Mongo (L3)
QL2Return(c) ==
    /\ qPc[c] = "l2_ret"
    /\ IF qGot[c] # "none"
       THEN /\ l1' = [l1 EXCEPT ![qKey[c]] = qGot[c]]
            /\ qPc' = [qPc EXCEPT ![c] = "done"]
            /\ qOutcome' = [qOutcome EXCEPT ![c] = "l2"]
       ELSE /\ qPc' = [qPc EXCEPT ![c] = "l3_get"]
            /\ UNCHANGED <<l1, qOutcome>>
    /\ UNCHANGED <<qKey, qGot, qAwait, redisData, mongoData, mongoRows, IN_FLIGHT, taskPc,
                   taskRes, taskGot, executes, cold>>
    /\ UNCHANGED breakerVars

\* Mongo serves L3Storage.get
QL3Read(c) ==
    /\ qPc[c] = "l3_get"
    /\ qGot' = [qGot EXCEPT ![c] = mongoData[qKey[c]]]
    /\ qPc' = [qPc EXCEPT ![c] = "l3_ret"]
    /\ UNCHANGED <<qKey, qAwait, qOutcome, l1, redisData, mongoData, mongoRows, IN_FLIGHT,
                   taskPc, taskRes, taskGot, executes, cold>>
    /\ UNCHANGED breakerVars

\* cache_manager.get after L3: a hit is promoted to L1 and L2; on a miss
\* query_mengla enters circuit.call, whose _check_state admits the call
\* (_fetch_mengla_data starts and asks Mongo) or raises CircuitBreakerError
QL3Return(c) ==
    /\ qPc[c] = "l3_ret"
    /\ IF qGot[c] # "none"
       THEN /\ l1' = [l1 EXCEPT ![qKey[c]] = qGot[c]]
            /\ redisData' = [redisData EXCEPT ![qKey[c]] = qGot[c]]
            /\ qPc' = [qPc EXCEPT ![c] = "done"]
            /\ qOutcome' = [qOutcome EXCEPT ![c] = "l3"]
            /\ UNCHANGED breakerVars
       ELSE LET r == CheckState(cb, now) IN
            /\ cb' = r.cb
            /\ BreakerGhosts(cb, r.cb, "call", r.allowed)
            /\ UNCHANGED cbPc
            /\ qPc' = [qPc EXCEPT ![c] = IF r.allowed THEN "mongo_get" ELSE "done"]
            /\ qOutcome' = [qOutcome EXCEPT ![c] =
                              IF r.allowed THEN @ ELSE "rejected"]
            /\ UNCHANGED <<l1, redisData>>
    /\ UNCHANGED <<qKey, qGot, qAwait, mongoData, mongoRows, IN_FLIGHT, taskPc, taskRes,
                   taskGot, executes, cold>>

\* Mongo serves _dedupe_by_query's find and the find_one of the Mongo probe
QMongoRead(c) ==
    /\ qPc[c] = "mongo_get"
    /\ qGot' = [qGot EXCEPT ![c] = mongoData[qKey[c]]]
    /\ qPc' = [qPc EXCEPT ![c] = "mongo_ret"]
    /\ UNCHANGED <<qKey, qAwait, qOutcome, l1, redisData, mongoData, mongoRows, IN_FLIGHT,
                   taskPc, taskRes, taskGot, executes, cold>>
    /\ UNCHANGED breakerVars

\* the Mongo probe: a document with a non-empty list is a hit, written back
\* to Redis; anything else goes on to the Redis probe
QMongoReturn(c) ==
    /\ qPc[c] = "mongo_ret"
    /\ qPc' = [qPc EXCEPT ![c] = IF qGot[c] = "data" THEN "mongo_hit" ELSE "redis_get"]
    /\ UNCHANGED <<qKey, qGot, qAwait, qOutcome, l1, redisData, mongoData, mongoRows,
                   IN_FLIGHT, taskPc, taskRes, taskGot, executes, cold>>
    /\ UNCHANGED breakerVars

\* Redis serves the SET of the Mongo hit
QMongoHitRedisSet(c) ==
    /\ qPc[c] = "mongo_hit"
    /\ redisData' = [redisData EXCEPT ![qKey[c]] = "data"]
    /\ qOutcome' = [qOutcome EXCEPT ![c] = "mongo"]
    /\ qPc' = [qPc EXCEPT ![c] = "call_ok"]
    /\ UNCHANGED <<qKey, qGot, qAwait, l1, mongoData, mongoRows, IN_FLIGHT, taskPc, taskRes,
                   taskGot, executes, cold>>
    /\ UNCHANGED breakerVars

\* Redis serves the GET of the Redis probe
QRedisRead(c) ==
    /\ qPc[c] = "redis_get"
    /\ qGot' = [qGot EXCEPT ![c] = redisData[qKey[c]]]
    /\ qPc' = [qPc EXCEPT ![c] = "redis_ret"]
    /\ UNCHANGED <<qKey, qAwait, qOutcome, l1, redisData, mongoData, mongoRows, IN_FLIGHT,
                   taskPc, taskRes, taskGot, executes, cold>>
    /\ UNCHANGED breakerVars

\* the Redis probe returns; on a miss the code runs without an await to the
\* in-flight table: await the registered task, or create and register one
QRedisReturn(c) ==
    /\ qPc[c] = "redis_ret"
    /\ IF qGot[c] = "data"
       THEN /\ qPc' = [qPc EXCEPT ![c] = "call_ok"]
            /\ qOutcome' = [qOutcome EXCEPT ![c] = "redis"]
            /\ UNCHANGED <<qAwait, IN_FLIGHT, taskPc>>
       ELSE /\ qPc' = [qPc EXCEPT ![c] = "await_task"]
            /\ UNCHANGED qOutcome
            /\ IF ExistingTask(qKey[c]) # 0
               THEN /\ qAwait' = [qAwait EXCEPT ![c] = ExistingTask(qKey[c])]
                    /\ UNCHANGED <<IN_FLIGHT, taskPc>>
               ELSE /\ qAwait' = [qAwait EXCEPT ![c] = c]
                    /\ IN_FLIGHT' = [IN_FLIGHT EXCEPT ![qKey[c]] = c]
                    /\ taskPc' = [taskPc EXCEPT ![c] = "query"]
    /\ UNCHANGED <<qKey, qGot, l1, redisData, mongoData, mongoRows, taskRes, taskGot,
                   executes, cold>>
    /\ UNCHANGED breakerVars

\* the task's service.query has ended: it returned the webhook result (a
\* non-empty or an empty list), or raised; an empty result skips persistence
TQueryReturn(t) ==
    /\ taskPc[t] = "query"
    /\ pPc[t] = "done"
    /\ IF pFlag[t] = "none"
       THEN \E res \in {"data", "empty"} :
              /\ taskRes' = [taskRes EXCEPT ![t] = res]
              /\ taskPc' = [taskPc EXCEPT ![t] = IF res = "empty" THEN "done" ELSE "find_again"]
              /\ cold' = [cold EXCEPT ![qKey[t]] = @ /\ res = "data"]
       ELSE /\ taskPc' = [taskPc EXCEPT ![t] = "raised"]
            /\ cold' = [cold EXCEPT ![qKey[t]] = FALSE]
            /\ UNCHANGED taskRes
    /\ UNCHANGED <<qPc, qKey, qGot, qAwait, qOutcome, l1, redisData, mongoData, mongoRows,
                   IN_FLIGHT, taskGot, executes>>

\* Mongo serves _fetch_and_persist's find_one (existing_again)
TFindAgainRead(t) ==
    /\ taskPc[t] = "find_again"
    /\ taskGot' = [taskGot EXCEPT ![t] = mongoData[qKey[t]]]
    /\ taskPc' = [taskPc EXCEPT ![t] = "find_again_ret"]
    /\ UNCHANGED <<qPc, qKey, qGot, qAwait, qOutcome, l1, redisData, mongoData, mongoRows,
                   IN_FLIGHT, taskRes, executes, cold>>

\* _fetch_and_persist skips persistence when a non-empty document exists
TFindAgainReturn(t) ==
    /\ taskPc[t] = "find_again_ret"
    /\ taskPc' = [taskPc EXCEPT ![t] = IF taskGot[t] = "data" THEN "done" ELSE "replace"]
    /\ UNCHANGED <<qPc, qKey, qGot, qAwait, qOutcome, l1, redisData, mongoData, mongoRows,
                   IN_FLIGHT, taskRes, taskGot, executes, cold>>

\* Mongo serves replace_one(upsert=True)
TReplace(t) ==
    /\ taskPc[t] = "replace"
    /\ docWriter' = [docWriter EXCEPT ![qKey[t]] = t]
    /\ mongoData' = [mongoData EXCEPT ![qKey[t]] = taskRes[t]]
    /\ mongoRows' = [mongoRows EXCEPT ![qKey[t]] = RowsAfterUpsert(@)]
    /\ taskPc' = [taskPc EXCEPT ![t] = "redis_set"]
    /\ UNCHANGED <<qPc, qKey, qGot, qAwait, qOutcome, l1, redisData, IN_FLIGHT,
                   taskRes, taskGot, executes, cold>>

\* Redis serves the SET of the fresh result; the task returns
TRedisSet(t) ==
    /\ taskPc[t] = "redis_set"
    /\ redisData' = [redisData EXCEPT ![qKey[t]] = taskRes[t]]
    /\ taskPc' = [taskPc EXCEPT ![t] = "done"]
    /\ UNCHANGED <<qPc, qKey, qGot, qAwait, qOutcome, l1, mongoData, mongoRows, IN_FLIGHT,
                   taskRes, taskGot, executes, cold>>

\* `await task` / `await existing_task` resumes once the task has finished;
\* the caller that created the task removes it from IN_FLIGHT if it is still
\* the registered one
QAwaitReturn(c) ==
    /\ qPc[c] = "await_task"
    /\ taskPc[qAwait[c]] \in {"done", "raised"}
    /\ IN_FLIGHT' = [IN_FLIGHT EXCEPT ![qKey[c]] =
                       IF qAwait[c] = c /\ @ = c THEN 0 ELSE @]
    /\ IF taskPc[qAwait[c]] = "done"
       THEN /\ qPc' = [qPc EXCEPT ![c] = "call_ok"]
            /\ qGot' = [qGot EXCEPT ![c] = taskRes[qAwait[c]]]
            /\ qOutcome' = [qOutcome EXCEPT ![c] = "fresh"]
       ELSE /\ qPc' = [qPc EXCEPT ![c] = "call_failed"]
            /\ UNCHANGED <<qGot, qOutcome>>
    /\ UNCHANGED <<qKey, qAwait, l1, redisData, mongoData, mongoRows, taskPc, taskRes,
                   taskGot, executes, cold>>
    /\ UNCHANGED breakerVars

\* circuit.call: the wrapped function returned, record_success
QCallOk(c) ==
    /\ qPc[c] = "call_ok"
    /\ cb' = RecordSuccess(cb)
    /\ BreakerGhosts(cb, RecordSuccess(cb), "success", FALSE)
    /\ qPc' = [qPc EXCEPT ![c] = "cache_set"]
    /\ UNCHANGED <<cbPc, qKey, qGot, qAwait, qOutcome, l1, redisData, mongoData, mongoRows,
                   IN_FLIGHT, taskPc, taskRes, taskGot, executes, cold>>

\* circuit.call: the wrapped function raised, record_failure
QCallFailed(c) ==
    /\ qPc[c] = "call_failed"
    /\ cb' = RecordFailure(cb, now)
    /\ BreakerGhosts(cb, RecordFailure(cb, now), "failure", FALSE)
    /\ qPc' = [qPc EXCEPT ![c] = "done"]
    /\ qOutcome' = [qOutcome EXCEPT ![c] = "error"]
    /\ UNCHANGED <<cbPc, qKey, qGot, qAwait, l1, redisData, mongoData, mongoRows, IN_FLIGHT,
                   taskPc, taskRes, taskGot, executes, cold>>

\* cache_manager.set as if it wrote L2 and L3 only
QCacheSetNoL1(c) ==
    /\ qPc[c] = "cache_set"
    /\ docWriter' = [docWriter EXCEPT ![qKey[c]] = c]
    /\ redisData' = [redisData EXCEPT ![qKey[c]] = qGot[c]]
    /\ mongoData' = [mongoData EXCEPT ![qKey[c]] = qGot[c]]
    /\ mongoRows' = [mongoRows EXCEPT ![qKey[c]] = RowsAfterUpsert(@)]
    /\ qPc' = [qPc EXCEPT ![c] = "done"]
    /\ UNCHANGED <<qKey, qGot, qAwait, qOutcome, l1, IN_FLIGHT, taskPc, taskRes,
                   taskGot, executes, cold>>
    /\ UNCHANGED breakerVars

\* cache_manager.set writes the returned data to L1, L2 and L3
QCacheSet(c) ==
    /\ qPc[c] = "cache_set"
    /\ docWriter' = [docWriter EXCEPT ![qKey[c]] = c]
    /\ l1' = [l1 EXCEPT ![qKey[c]] = qGot[c]]
    /\ redisData' = [redisData EXCEPT ![qKey[c]] = qGot[c]]
    /\ mongoData' = [mongoData EXCEPT ![qKey[c]] = qGot[c]]
    /\ mongoRows' = [mongoRows EXCEPT ![qKey[c]] = RowsAfterUpsert(@)]
    /\ qPc' = [qPc EXCEPT ![c] = "done"]
    /\ UNCHANGED <<qKey, qGot, qAwait, qOutcome, IN_FLIGHT, taskPc, taskRes,
                   taskGot, executes, cold>>
    /\ UNCHANGED breakerVars

\* the execute POST of the task's service.query
TPost(t) ==
    /\ PPost(t)
    /\ executes' = [executes EXCEPT ![qKey[t]] = @ + 1]
    /\ UNCHANGED <<qPc, qKey, qGot, qAwait, qOutcome, l1, redisData, mongoData, mongoRows,
                   IN_FLIGHT, taskPc, taskRes, taskGot, cold>>

DedupInit ==
    /\ qPc = [c \in QCallers |-> "idle"]
    /\ qKey = [c \in QCallers |-> 0]
    /\ qGot = [c \in QCallers |-> "none"]
    /\ qAwait = [c \in QCallers |-> 0]
    /\ qOutcome = [c \in QCallers |-> "none"]
    /\ l1 = [k \in Keys |-> "none"]
    /\ redisData = [k \in Keys |-> "none"]
    /\ mongoData = [k \in Keys |-> "none"]
    /\ mongoRows = [k \in Keys |-> 0]
    /\ IN_FLIGHT = [k \in Keys |-> 0]
    /\ taskPc = [c \in QCallers |-> "none"]
    /\ taskRes = [c \in QCallers |-> "none"]
    /\ taskGot = [c \in QCallers |-> "none"]
    /\ executes = [k \in Keys |-> 0]
    /\ cold = [k \in Keys |-> TRUE]

(***************************************************************************)
(* Claims about the query path (checked under SpecDedup)                   *)
(***************************************************************************)
\* C1 (in-flight dedup): every unfinished _fetch_and_persist task of a key is
\* the one registered in IN_FLIGHT for it, so a key never has two; and a
\* caller that reaches the dedup step while a task is registered creates no
\* task and awaits the registered one.
C1_InFlightDedup ==
    /\ [](\A k \in Keys : \A t \in Outstanding(k) : IN_FLIGHT[k] = t)
    /\ [][ \A c \in QCallers :
             (qPc[c] = "redis_ret" /\ qPc'[c] = "await_task"
                 /\ IN_FLIGHT[qKey[c]] # 0)
               => (qAwait'[c] = IN_FLIGHT[qKey[c]] /\ taskPc' = taskPc)
         ]_vars

\* C1 witness: two callers of one key await the same unfinished task, one of
\* them its creator
C1_Witness ==
    \E c1, c2 \in QCallers :
        /\ c1 # c2
        /\ qKey[c1] = qKey[c2]
        /\ qPc[c1] = "await_task" /\ qPc[c2] = "await_task"
        /\ qAwait[c1] = c1 /\ qAwait[c2] = c1
        /\ c1 \in Outstanding(qKey[c1])

\* C2 (as claimed): overlapping identical cold queries whose upstream fetch
\* returns data start at most one upstream execute for their key.
C2_ExactlyOneExecute ==
    \A k \in Keys : cold[k] => executes[k] <= 1

DocInit == docWriter = [k \in Keys |-> 0]

\* C35 (as claimed): when a query_mengla has obtained a fresh result from its
\* own upstream call and the durable store holds a non-empty document of the
\* same identity that another query wrote (_fetch_and_persist found it and
\* skipped its replace_one), the L3Storage.set of the query's
\* cache_manager.set does not replace that document either.
C35_NoClobber ==
    [][ \A c \in QCallers :
          (/\ qAwait[c] = c /\ taskRes[c] = "data" /\ taskGot[c] = "data"
           /\ qPc[c] = "cache_set" /\ qPc'[c] = "done" /\ qOutcome[c] = "fresh"
           /\ mongoData[qKey[c]] = "data"
           /\ docWriter[qKey[c]] \notin {0, c})
          => docWriter'[qKey[c]] = docWriter[qKey[c]]
      ]_vars

\* C38 (as claimed): a failed upstream dispatch (a _fetch_and_persist task
\* that raised) adds exactly one to the failure count of the action's breaker,
\* however many callers awaited it; so the count never exceeds the number of
\* failed dispatches, and the breaker has never opened while fewer than
\* failure_threshold dispatches have failed.
C38_OneFailurePerDispatch ==
    LET failedDispatches == Cardinality({t \in QCallers : taskPc[t] = "raised"}) IN
    /\ cb.failure_count <= failedDispatches
    /\ failedDispatches < FailureThreshold => (cb.state = "CLOSED" /\ openedAt = NoTime)

\* C19 (as claimed): no cache tier ever holds an empty upstream result, and
\* no query returns an empty value as a cache hit.
C19_EmptyValuePolicy ==
    /\ \A k \in Keys :
          l1[k] # "empty" /\ redisData[k] # "empty" /\ mongoData[k] # "empty"
    /\ \A c \in QCallers :
          (qPc[c] = "done" /\ qOutcome[c] \in {"l1", "l2", "l3"}) => qGot[c] # "empty"

\* C20 (cold miss then warm hit): when a query_mengla starts for a key after
\* the only earlier query of that key has returned a result, that earlier
\* query returned source fresh after exactly one upstream execute, and the new
\* query returns at once the same payload with source l1 and starts no
\* upstream execute.
C20_ColdMissThenWarmHit ==
    [][ \A c, d \in QCallers :
          (/\ c # d
           /\ qPc[c] = "idle" /\ qPc'[c] # "idle" /\ qKey'[c] = qKey[d]
           /\ qPc[d] = "done" /\ qOutcome[d] \notin {"error", "rejected"}
           /\ \A e \in QCallers \ {c, d} : qKey[e] # qKey[d])
          => /\ qOutcome[d] = "fresh" /\ executes[qKey[d]] = 1
             /\ qPc'[c] = "done" /\ qOutcome'[c] = "l1" /\ qGot'[c] = qGot[d]
             /\ executes' = executes
      ]_vars

\* C20 witness: the first query of a key returned data with source fresh, the
\* second returned the same data with source l1, and the key had one execute
C20_Witness ==
    \E c, d \in QCallers :
        /\ c # d /\ qKey[c] = qKey[d]
        /\ qPc[d] = "done" /\ qOutcome[d] = "fresh" /\ qGot[d] = "data"
        /\ qPc[c] = "done" /\ qOutcome[c] = "l1" /\ qGot[c] = "data"
        /\ executes[qKey[d]] = 1

(***************************************************************************)
(* Claims about the circuit breaker (checked under SpecBreaker)            *)
(***************************************************************************)
\* the step is breaker operation op
CbStep(op) == cbEvent'.seq # cbEvent.seq /\ cbEvent'.op = op

\* C6 (circuit correctness): when the failure recorded in CLOSED is the
\* failure_threshold-th consecutive one (no success, close or reset in
\* between) the breaker is OPEN afterwards, and a call() made while it is OPEN
\* and fewer than `timeout` seconds after it opened is rejected: the breaker is
\* unchanged and the wrapped function is not started.
C6_OpenAfterThresholdRejects ==
    [][ /\ (CbStep("failure") /\ cb.state = "CLOSED" /\ consecFailures' >= FailureThreshold)
            => cb'.state = "OPEN"
        /\ (CbStep("call") /\ cb.state = "OPEN" /\ now - openedAt < CbTimeout)
            => (~cbEvent'.admitted /\ cbPc' = cbPc /\ cb' = cb)
      ]_vars

\* C6 witness: a call has just been rejected by a breaker that failure_threshold
\* consecutive failures opened less than `timeout` seconds ago
C6_Witness ==
    /\ cbEvent.op = "call" /\ ~cbEvent.admitted
    /\ cb.state = "OPEN"
    /\ consecFailures >= FailureThreshold
    /\ now - openedAt < CbTimeout
    /\ \A c \in CbCallers : cbPc[c] = "idle"

\* C7 (as claimed): during one HALF_OPEN episode at most half_open_max_calls
\* calls are admitted, counting the call that made the OPEN -> HALF_OPEN
\* transition.
C7_EpisodeAdmitsAtMostMax ==
    cb.state = "HALF_OPEN" => episodeAdmitted <= HalfOpenMaxCalls

\* C8: in HALF_OPEN the breaker closes exactly at the success_threshold-th
\* success recorded during the episode (failure and success counters then 0),
\* it leaves HALF_OPEN for CLOSED in no other way except reset, and a failure
\* recorded in HALF_OPEN opens it with the timestamp set to that failure's time.
C8_HalfOpenTransitions ==
    [][ /\ (CbStep("success") /\ cb.state = "HALF_OPEN")
            => /\ (cb'.state = "CLOSED") = (episodeSuccesses' = SuccessThreshold)
               /\ cb'.state \in {"CLOSED", "HALF_OPEN"}
               /\ cb'.state = "CLOSED" => (cb'.failure_count = 0 /\ cb'.success_count = 0)
        /\ (cb.state = "HALF_OPEN" /\ cb'.state = "CLOSED")
            => (CbStep("success") \/ CbStep("reset"))
        /\ (CbStep("failure") /\ cb.state = "HALF_OPEN")
            => (cb'.state = "OPEN" /\ cb'.last_failure_time = now)
      ]_vars

\* C8 witness: the success_threshold-th success of an episode has just closed
\* the breaker
C8_Witness ==
    /\ cbEvent.op = "success"
    /\ cb.state = "CLOSED"
    /\ episodeSuccesses = SuccessThreshold
    /\ openedAt # NoTime

\* C40 (as claimed): the breaker does not stay HALF_OPEN forever.  Whenever
\* it is HALF_OPEN and rejecting calls (its probe slots are used up), it
\* eventually leaves HALF_OPEN, to CLOSED or OPEN, without a manual reset,
\* also when admitted probes are cancelled before their outcome is recorded.
C40_LeavesHalfOpen ==
    (cb.state = "HALF_OPEN" /\ cb.half_open_calls >= HalfOpenMaxCalls)
        ~> (cb.state # "HALF_OPEN")

\* C9 (as claimed): a call on an OPEN breaker is rejected until `timeout`
\* seconds after the breaker opened, the first call after that is admitted and
\* moves it to HALF_OPEN; OPEN never goes to CLOSED except by reset.
C9_TimeoutSinceOpened ==
    [][ /\ (CbStep("call") /\ cb.state = "OPEN")
            => IF now - openedAt >= CbTimeout
               THEN cbEvent'.admitted /\ cb'.state = "HALF_OPEN"
               ELSE ~cbEvent'.admitted /\ cb' = cb /\ cbPc' = cbPc
        /\ (cb.state = "OPEN" /\ cb'.state = "CLOSED") => CbStep("reset")
      ]_vars

\* C9 (amended): the same with the timeout measured from the most recently
\* recorded failure, which may be later than the opening.
C9_TimeoutSinceLastFailure ==
    [][ /\ (CbStep("call") /\ cb.state = "OPEN")
            => IF now - lastFailureAt >= CbTimeout
               THEN /\ cbEvent'.admitted /\ cb'.state = "HALF_OPEN"
                    /\ \E c \in CbCallers : cbPc[c] = "idle" /\ cbPc'[c] = "running"
               ELSE ~cbEvent'.admitted /\ cb' = cb /\ cbPc' = cbPc
        /\ (cb.state = "OPEN" /\ cb'.state = "CLOSED") => CbStep("reset")
      ]_vars

\* C9 witness: a failure was recorded after the breaker opened, and the call
\* made `timeout` seconds after that failure has just been admitted as the
\* first probe
C9_Witness ==
    /\ cbEvent.op = "call" /\ cbEvent.admitted
    /\ cb.state = "HALF_OPEN"
    /\ episodeAdmitted = 1
    /\ lastFailureAt > openedAt
    /\ now - lastFailureAt >= CbTimeout


(***************************************************************************)
(* infra/cache.py: CacheManager.get and CacheManager.set over L1Cache      *)
(* (process-local TTLCache), L2Cache (Redis) and L3Storage (collection     *)
(* mengla_data), called directly; every caller works on one identity, and  *)
(* entries of L1 and L2 expire.  A payload is "data" or "empty" (a payload *)
(* without items: it is not None); "none" is Python's None / no entry.     *)
(***************************************************************************)
MCallers == 1..NumMCallers
CacheValues == {"empty", "data"}

\* the variables of query_mengla's callers and tasks, which the cache
\* manager's direct callers leave alone
queryVars == <<qPc, qKey, qGot, qAwait, qOutcome, IN_FLIGHT, taskPc, taskRes,
               taskGot, executes, cold>>

\* a write to identity k by caller d (0: an expiry) happens during the
\* operations of every other caller of k
Disturb(d, k) ==
    [c \in MCallers |-> IF c # d /\ mKey[c] = k THEN TRUE ELSE mDist[c]]

\* the operation of caller c has returned (val, src)
Returned(c, op, val, src) ==
    [mHist EXCEPT ![c] = Append(@, [op |-> op, val |-> val, src |-> src])]

\* L1Cache.set as if the promotion of a hit did not write L1
L1AfterSetSkip(k, v) == l1

\* L1Cache.set(key, data): self._cache[key] = data
L1AfterSet(k, v) == [l1 EXCEPT ![k] = v]

\* the identity a caller's operation is for: chosen by its first operation
KeyChoices(c) == IF mKey[c] = 0 THEN Keys ELSE {mKey[c]}

\* CacheManager.get starts: l1.get returns a hit at once, a miss asks Redis
MGetStart(c) ==
    /\ mPc[c] = "idle"
    /\ Len(mHist[c]) < MaxOps
    /\ \E k \in KeyChoices(c) :
         /\ mKey' = [mKey EXCEPT ![c] = k]
         /\ IF l1[k] # "none"
            THEN /\ mHist' = Returned(c, "get", l1[k], "l1")
                 /\ UNCHANGED mPc
            ELSE /\ mPc' = [mPc EXCEPT ![c] = "l2_get"]
                 /\ UNCHANGED mHist
    /\ UNCHANGED <<l1, redisData, mongoData, mongoRows, mVal, mPend, mDist>>

\* Redis serves L2Cache.get
MGetL2Read(c) ==
    /\ mPc[c] = "l2_get"
    /\ mVal' = [mVal EXCEPT ![c] = redisData[mKey[c]]]
    /\ mPc' = [mPc EXCEPT ![c] = "l2_ret"]
    /\ UNCHANGED <<l1, redisData, mongoData, mongoRows, mKey, mPend, mHist, mDist>>

\* CacheManager.get after L2: a hit is written to L1 and returned, a miss
\* asks Mongo
MGetL2Return(c) ==
    /\ mPc[c] = "l2_ret"
    /\ IF mVal[c] # "none"
       THEN /\ l1' = L1AfterSet(mKey[c], mVal[c])
            /\ mDist' = Disturb(c, mKey[c])
            /\ mHist' = Returned(c, "get", mVal[c], "l2")
            /\ mPc' = [mPc EXCEPT ![c] = "idle"]
       ELSE /\ mPc' = [mPc EXCEPT ![c] = "l3_get"]
            /\ UNCHANGED <<l1, mDist, mHist>>
    /\ UNCHANGED <<redisData, mongoData, mongoRows, mKey, mVal, mPend>>

\* Mongo serves L3Storage.get: find_one by the identity
MGetL3Read(c) ==
    /\ mPc[c] = "l3_get"
    /\ mVal' = [mVal EXCEPT ![c] =
                  IF mongoRows[mKey[c]] = 0 THEN "none" ELSE mongoData[mKey[c]]]
    /\ mPc' = [mPc EXCEPT ![c] = "l3_ret"]
    /\ UNCHANGED <<l1, redisData, mongoData, mongoRows, mKey, mPend, mHist, mDist>>

\* CacheManager.get after L3: a document with data is written to L1, then
\* L2 is asked to store it; no document (or no data) returns (None, "")
MGetL3Return(c) ==
    /\ mPc[c] = "l3_ret"
    /\ IF mVal[c] # "none"
       THEN /\ l1' = L1AfterSet(mKey[c], mVal[c])
            /\ mDist' = Disturb(c, mKey[c])
            /\ mPc' = [mPc EXCEPT ![c] = "l3_l2set"]
            /\ UNCHANGED mHist
       ELSE /\ mHist' = Returned(c, "get", "none", "")
            /\ mPc' = [mPc EXCEPT ![c] = "idle"]
            /\ UNCHANGED <<l1, mDist>>
    /\ UNCHANGED <<redisData, mongoData, mongoRows, mKey, mVal, mPend>>

\* Redis serves the L2Cache.set of the L3 hit; get returns (data, "l3")
MGetL2Set(c) ==
    /\ mPc[c] = "l3_l2set"
    /\ redisData' = [redisData EXCEPT ![mKey[c]] = mVal[c]]
    /\ mDist' = Disturb(c, mKey[c])
    /\ mHist' = Returned(c, "get", mVal[c], "l3")
    /\ mPc' = [mPc EXCEPT ![c] = "idle"]
    /\ UNCHANGED <<l1, mongoData, mongoRows, mKey, mVal, mPend>>

\* CacheManager.set starts: asyncio.gather of l1.set, l2.set and l3.set
MSetStart(c) ==
    /\ mPc[c] = "idle"
    /\ Len(mHist[c]) < MaxOps
    /\ \E k \in KeyChoices(c), v \in CacheValues :
         /\ mKey' = [mKey EXCEPT ![c] = k]
         /\ mVal' = [mVal EXCEPT ![c] = v]
    /\ mPc' = [mPc EXCEPT ![c] = "set"]
    /\ mPend' = [mPend EXCEPT ![c] = {"l1", "l2", "l3"}]
    /\ UNCHANGED <<l1, redisData, mongoData, mongoRows, mHist, mDist>>

\* one of the gathered writes takes effect (L1Cache.set, the Redis SET, or
\* Mongo's replace_one with upsert); set returns when all three are done
MSetWrite(c, tier) ==
    /\ mPc[c] = "set"
    /\ tier \in mPend[c]
    /\ l1' = IF tier = "l1" THEN L1AfterSet(mKey[c], mVal[c]) ELSE l1
    /\ redisData' = IF tier = "l2" THEN [redisData EXCEPT ![mKey[c]] = mVal[c]]
                    ELSE redisData
    /\ mongoData' = IF tier = "l3" THEN [mongoData EXCEPT ![mKey[c]] = mVal[c]]
                    ELSE mongoData
    /\ mongoRows' = IF tier = "l3"
                    THEN [mongoRows EXCEPT ![mKey[c]] = RowsAfterUpsert(@)]
                    ELSE mongoRows
    /\ mDist' = Disturb(c, mKey[c])
    /\ mPend' = [mPend EXCEPT ![c] = @ \ {tier}]
    /\ IF mPend[c] = {tier}
       THEN /\ mHist' = Returned(c, "set", mVal[c], "")
            /\ mPc' = [mPc EXCEPT ![c] = "idle"]
       ELSE UNCHANGED <<mHist, mPc>>
    /\ UNCHANGED <<mKey, mVal>>

\* the TTLCache drops an entry (ttl passed, or LRU eviction at max_size)
L1Expire(k) ==
    /\ l1[k] # "none"
    /\ l1' = [l1 EXCEPT ![k] = "none"]
    /\ mDist' = Disturb(0, k)
    /\ UNCHANGED <<redisData, mongoData, mongoRows, mPc, mKey, mVal, mPend, mHist>>

\* Redis drops a data key whose ex=ttl has passed
L2Expire(k) ==
    /\ redisData[k] # "none"
    /\ redisData' = [redisData EXCEPT ![k] = "none"]
    /\ mDist' = Disturb(0, k)
    /\ UNCHANGED <<l1, mongoData, mongoRows, mPc, mKey, mVal, mPend, mHist>>

CacheInit ==
    /\ mPc = [c \in MCallers |-> "idle"]
    /\ mKey = [c \in MCallers |-> 0]
    /\ mVal = [c \in MCallers |-> "none"]
    /\ mPend = [c \in MCallers |-> {}]
    /\ mHist = [c \in MCallers |-> <<>>]
    /\ mDist = [c \in MCallers |-> FALSE]

(***************************************************************************)
(* Claims about the cache manager (checked under SpecCache)                *)
(***************************************************************************)
\* caller c has just returned from an operation
MReturns(c) == Len(mHist'[c]) = Len(mHist[c]) + 1

\* the last operation caller c returned from
MLast(c) == mHist'[c][Len(mHist'[c])]

TrendKeys == 1..MaxTrendKeys

\* period_keys_list of the request
RangeKeys(n) == 1..n

\* no tuple returned yet
NoRet == [arity |-> 0, points |-> {}, requested |-> 0, found |-> 0]

\* the Mongo lookup of _fetch_mengla_data for a trend range of n keys, given
\* by_key: the full hit returns (merged, "mongo"), the partial hit returns
\* (merged, "mongo", {partial, requested, found}); arity 0 stands for
\* falling through to the collect service
TrendLookup(n, byKey) ==
    LET present == {pk \in RangeKeys(n) : byKey[pk] # "none"}
        \* the full-hit loop stops at the first document without data
        fullPoints == {pk \in RangeKeys(n) :
                          \A q \in RangeKeys(n) : q <= pk => byKey[q] = "data"}
        partPoints == {pk \in RangeKeys(n) : byKey[pk] = "data"}
    IN  IF present = RangeKeys(n) /\ Cardinality(fullPoints) >= n
        THEN [arity |-> 2, points |-> fullPoints, requested |-> 0, found |-> 0]
        ELSE IF present # {} /\ partPoints # {}
        THEN [arity |-> 3, points |-> partPoints, requested |-> n,
              found |-> Cardinality(present)]
        ELSE NoRet

\* a collect run stores (or empties) the trend document of a period key
TrendStore(pk, v) ==
    /\ trDocs[pk] # v
    /\ trDocs' = [trDocs EXCEPT ![pk] = v]
    /\ UNCHANGED <<trPc, trN, trByKey, trRet, trOutcome>>
    /\ UNCHANGED breakerVars

\* query_mengla(action="industryTrendRange", starRange, endRange): the cache
\* tiers are skipped; circuit.call admits the call or raises CircuitBreakerError
TrendStart(n) ==
    /\ trPc = "idle"
    /\ trN' = n
    /\ LET r == CheckState(cb, now) IN
       /\ cb' = r.cb
       /\ BreakerGhosts(cb, r.cb, "call", r.allowed)
       /\ UNCHANGED cbPc
       /\ trPc' = IF r.allowed THEN "find" ELSE "done"
       /\ trOutcome' = IF r.allowed THEN "none" ELSE "rejected"
    /\ UNCHANGED <<trDocs, trByKey, trRet>>

\* Mongo serves collection.find({... period_key: {$in: period_keys_list}})
TrendFind ==
    /\ trPc = "find"
    /\ trByKey' = [pk \in TrendKeys |-> IF pk \in RangeKeys(trN) THEN trDocs[pk] ELSE "none"]
    /\ trPc' = "found"
    /\ UNCHANGED <<trDocs, trN, trRet, trOutcome>>
    /\ UNCHANGED breakerVars

\* _fetch_mengla_data returns its tuple to fetch_from_service, whose
\* `data, source = await _fetch_mengla_data(...)` unpacks two values: a
\* 3-tuple raises ValueError, which circuit.call records as a failure and
\* query_mengla re-raises; a 2-tuple is returned after record_success
TrendReturn ==
    /\ trPc = "found"
    /\ LET ret == TrendLookup(trN, trByKey) IN
       /\ trRet' = ret
       /\ IF ret.arity = 0
          THEN /\ trPc' = "collect"
               /\ UNCHANGED trOutcome
               /\ UNCHANGED breakerVars
          ELSE IF ret.arity = 2
          THEN /\ cb' = RecordSuccess(cb)
               /\ BreakerGhosts(cb, RecordSuccess(cb), "success", FALSE)
               /\ UNCHANGED cbPc
               /\ trPc' = "done"
               /\ trOutcome' = "returned"
          ELSE /\ cb' = RecordFailure(cb, now)
               /\ BreakerGhosts(cb, RecordFailure(cb, now), "failure", FALSE)
               /\ UNCHANGED cbPc
               /\ trPc' = "done"
               /\ trOutcome' = "ValueError"
    /\ UNCHANGED <<trDocs, trN, trByKey>>

\* the caller issues its next trend query
TrendAgain ==
    /\ trPc = "done"
    /\ trPc' = "idle"
    /\ trRet' = NoRet
    /\ trOutcome' = "none"
    /\ UNCHANGED <<trDocs, trN, trByKey>>
    /\ UNCHANGED breakerVars

TrendInit ==
    /\ trDocs = [pk \in TrendKeys |-> "none"]
    /\ trPc = "idle"
    /\ trN = 0
    /\ trByKey = [pk \in TrendKeys |-> "none"]
    /\ trRet = NoRet
    /\ trOutcome = "none"

(***************************************************************************)
(* Claims about the trend query (checked under SpecTrend)                  *)
(***************************************************************************)
\* C21 (as claimed): a trend query whose lookup found non-empty documents for
\* k of the N period keys of its range, 0 < k < N, is not sent to the collect
\* service and returns successfully the points of those k documents with the
\* side channel {requested: N, found: k}.
C21_TrendPartial ==
    LET k == Cardinality({pk \in RangeKeys(trN) : trByKey[pk] = "data"}) IN
    (trPc \in {"collect", "done"} /\ trOutcome # "rejected" /\ 0 < k /\ k < trN)
        => /\ trPc = "done" /\ trOutcome = "returned"
           /\ trRet.points = {pk \in RangeKeys(trN) : trByKey[pk] = "data"}
           /\ trRet.requested = trN /\ trRet.found = k

(***************************************************************************)
(* core/sync_task_log.py and the scheduler's job functions                 *)
(*                                                                         *)
(* Every start of a job function is one process; the row it inserts into   *)
(* sync_task_logs gets the process's number as its _id (ObjectIds are      *)
(* unique).  A Mongo command takes effect in one step; the flag set        *)
(* _cancelled_logs is read and written between awaits.                     *)
(***************************************************************************)
SyncStarters == 1..NumSyncStarters

\* the scheduler's job functions that write a sync task log
JobFns == {"run_period_collect", "run_backfill_check",
           "run_mengla_granular_jobs", "run_mengla_jobs"}

\* the task_id each job function logs under (run_period_collect: granularity day)
TaskIdOf(fn) ==
    CASE fn = "run_period_collect" -> "day_collect"
      [] fn = "run_backfill_check" -> "backfill_check"
      [] fn = "run_mengla_granular_jobs" -> "mengla_granular"
      [] fn = "run_mengla_jobs" -> "mengla_single_day"

\* job functions that call get_running_task_by_task_id before creating the row
HasOverlapGuard(fn) ==
    fn \in {"run_period_collect", "run_backfill_check", "run_mengla_granular_jobs"}

\* job functions that count the RUNNING rows again after creating their own
HasDoubleCheck(fn) == fn = "run_period_collect"

\* number of checkpointed loops the job function runs one after the other
\* (non-trend loop, then trend loop; the other two have one nested loop)
NumPhases(fn) ==
    IF fn \in {"run_period_collect", "run_mengla_granular_jobs"} THEN 2 ELSE 1

\* rows of sync_task_logs that are RUNNING under a task id
RunningRows(task_id) ==
    {l \in SyncStarters : syncLogs[l].status = "RUNNING" /\ syncLogs[l].task_id = task_id}

\* is_cancelled as if the flag set were never consulted
is_cancelledNever(log_id) == FALSE

\* is_cancelled(log_id)
is_cancelled(log_id) == log_id \in cancelled_logs

\* a job function is called (scheduler trigger or manual trigger)
SStart(l, fn) ==
    /\ sPc[l] = "idle"
    /\ sFn' = [sFn EXCEPT ![l] = fn]
    /\ sPc' = [sPc EXCEPT ![l] = IF HasOverlapGuard(fn) THEN "guard" ELSE "create"]
    /\ UNCHANGED <<syncLogs, cancelled_logs, sPhase, sCat, sFailed, sResult,
                   cPc, cLog, cancelOk, iterAfterCancel>>

\* existing = await get_running_task_by_task_id(task_id); return skipped if any
SGuard(l) ==
    /\ sPc[l] = "guard"
    /\ IF RunningRows(TaskIdOf(sFn[l])) # {}
       THEN /\ sPc' = [sPc EXCEPT ![l] = "returned"]
            /\ sResult' = [sResult EXCEPT ![l] = "already_running"]
       ELSE /\ sPc' = [sPc EXCEPT ![l] = "create"]
            /\ UNCHANGED sResult
    /\ UNCHANGED <<syncLogs, cancelled_logs, sFn, sPhase, sCat, sFailed,
                   cPc, cLog, cancelOk, iterAfterCancel>>

\* the job's code from the resumption after an await up to its next await,
\* entered at the top of iteration sCat of loop sPhase: the is_cancelled
\* checkpoints of the loops, the check after the loops, and the choice of
\* the final status
SAdvance(l, phase, cat) ==
    IF is_cancelled(l)
    THEN \* break; if is_cancelled(log_id): _unmark_cancelled(log_id); return
         /\ cancelled_logs' = cancelled_logs \ {l}
         /\ sPc' = [sPc EXCEPT ![l] = "returned"]
         /\ sResult' = [sResult EXCEPT ![l] = "cancelled"]
         /\ UNCHANGED <<sPhase, sCat, iterAfterCancel>>
    ELSE IF cat <= NumCats
    THEN \* the next iteration of this loop begins
         /\ sPc' = [sPc EXCEPT ![l] = "body"]
         /\ sPhase' = [sPhase EXCEPT ![l] = phase]
         /\ sCat' = [sCat EXCEPT ![l] = cat]
         /\ iterAfterCancel' = [iterAfterCancel EXCEPT ![l] =
                                  IF l \in cancelOk THEN @ + 1 ELSE @]
         /\ UNCHANGED <<cancelled_logs, sResult>>
    ELSE IF phase < NumPhases(sFn[l])
    THEN \* the loop is exhausted: the first iteration of the next loop begins
         /\ sPc' = [sPc EXCEPT ![l] = "body"]
         /\ sPhase' = [sPhase EXCEPT ![l] = phase + 1]
         /\ sCat' = [sCat EXCEPT ![l] = 1]
         /\ iterAfterCancel' = [iterAfterCancel EXCEPT ![l] =
                                  IF l \in cancelOk THEN @ + 1 ELSE @]
         /\ UNCHANGED <<cancelled_logs, sResult>>
    ELSE \* all loops done: final_status is chosen, finish_sync_task_log is called
         /\ sPc' = [sPc EXCEPT ![l] = "finish"]
         /\ UNCHANGED <<cancelled_logs, sPhase, sCat, sResult, iterAfterCancel>>

\* log_id = await create_sync_task_log(...): insert_one of a RUNNING row;
\* a job function without the double check goes on into its first loop
SCreate(l) ==
    /\ sPc[l] = "create"
    /\ syncLogs' = [syncLogs EXCEPT ![l] =
                      [task_id |-> TaskIdOf(sFn[l]), status |-> "RUNNING"]]
    /\ IF HasDoubleCheck(sFn[l])
       THEN /\ sPc' = [sPc EXCEPT ![l] = "count"]
            /\ UNCHANGED <<cancelled_logs, sPhase, sCat, sResult, iterAfterCancel>>
       ELSE SAdvance(l, 1, 1)
    /\ UNCHANGED <<sFn, sFailed, cPc, cLog, cancelOk>>

\* count = await count_documents({task_id, status RUNNING}); count > 1 leads to
\* finish_sync_task_log(log_id, CANCELLED), otherwise the first loop begins
SCount(l) ==
    /\ sPc[l] = "count"
    /\ IF Cardinality(RunningRows(TaskIdOf(sFn[l]))) > 1
       THEN /\ sPc' = [sPc EXCEPT ![l] = "self_cancel"]
            /\ UNCHANGED <<cancelled_logs, sPhase, sCat, sResult, iterAfterCancel>>
       ELSE SAdvance(l, 1, 1)
    /\ UNCHANGED <<syncLogs, sFn, sFailed, cPc, cLog, cancelOk>>

\* await finish_sync_task_log(log_id, STATUS_CANCELLED, ...); return skipped
SSelfCancel(l) ==
    /\ sPc[l] = "self_cancel"
    /\ syncLogs' = [syncLogs EXCEPT ![l].status = "CANCELLED"]
    /\ sPc' = [sPc EXCEPT ![l] = "returned"]
    /\ sResult' = [sResult EXCEPT ![l] = "concurrent_conflict"]
    /\ UNCHANGED <<cancelled_logs, sFn, sPhase, sCat, sFailed,
                   cPc, cLog, cancelOk, iterAfterCancel>>

\* one iteration's awaits (the collect calls, update_sync_task_progress, the
\* sleep); ok tells whether every collect of the iteration succeeded; then
\* the code runs on to its next await
SIterBody(l, ok) ==
    /\ sPc[l] = "body"
    /\ sFailed' = [sFailed EXCEPT ![l] = @ \/ ~ok]
    /\ SAdvance(l, sPhase[l], sCat[l] + 1)
    /\ UNCHANGED <<syncLogs, sFn, cPc, cLog, cancelOk>>

\* await finish_sync_task_log(log_id, status=final_status): update_one by _id
\* alone sets the status, whatever it was; then the job returns
SFinish(l) ==
    /\ sPc[l] = "finish"
    /\ syncLogs' = [syncLogs EXCEPT ![l].status =
                      IF sFailed[l] THEN "FAILED" ELSE "COMPLETED"]
    /\ sPc' = [sPc EXCEPT ![l] = "returned"]
    /\ sResult' = [sResult EXCEPT ![l] = "finished"]
    /\ UNCHANGED <<cancelled_logs, sFn, sPhase, sCat, sFailed,
                   cPc, cLog, cancelOk, iterAfterCancel>>

\* the update of cancel_sync_task with the filter {_id} alone
CancelUpdateAnyStatus(l) ==
    /\ cPc = "idle"
    /\ syncLogs[l].status # "NONE"
    /\ syncLogs' = [syncLogs EXCEPT ![l].status = "CANCELLED"]
    /\ cPc' = "mark"
    /\ cLog' = l
    /\ UNCHANGED <<cancelled_logs, sPc, sFn, sPhase, sCat, sFailed, sResult,
                   cancelOk, iterAfterCancel>>

\* cancel_sync_task(log_id): find_one_and_update {_id, status RUNNING} ->
\* CANCELLED, when it finds the row
CancelUpdate(l) ==
    /\ cPc = "idle"
    /\ syncLogs[l].status = "RUNNING"
    /\ syncLogs' = [syncLogs EXCEPT ![l].status = "CANCELLED"]
    /\ cPc' = "mark"
    /\ cLog' = l
    /\ UNCHANGED <<cancelled_logs, sPc, sFn, sPhase, sCat, sFailed, sResult,
                   cancelOk, iterAfterCancel>>

\* cancel_sync_task: await _mark_cancelled(log_id); return success
CancelMark ==
    /\ cPc = "mark"
    /\ cancelled_logs' = cancelled_logs \cup {cLog}
    /\ cancelOk' = cancelOk \cup {cLog}
    /\ cPc' = "idle"
    /\ cLog' = 0
    /\ UNCHANGED <<syncLogs, sPc, sFn, sPhase, sCat, sFailed, sResult,
                   iterAfterCancel>>

\* cancel_sync_task(log_id): the find_one_and_update matches no row (the row
\* is missing or not RUNNING) and returns None
CancelRefused(l) ==
    /\ cPc = "idle"
    /\ syncLogs[l].status # "RUNNING"
    /\ cPc' = "find"
    /\ cLog' = l
    /\ UNCHANGED <<syncLogs, cancelled_logs, sPc, sFn, sPhase, sCat, sFailed, sResult,
                   cancelOk, iterAfterCancel>>

\* cancel_sync_task: task = await find_one({_id}); return success False
CancelReturnFailure ==
    /\ cPc = "find"
    /\ cPc' = "idle"
    /\ cLog' = 0
    /\ UNCHANGED <<syncLogs, cancelled_logs, sPc, sFn, sPhase, sCat, sFailed, sResult,
                   cancelOk, iterAfterCancel>>

SyncInit ==
    /\ syncLogs = [l \in SyncStarters |-> [task_id |-> "none", status |-> "NONE"]]
    /\ cancelled_logs = {}
    /\ sPc = [l \in SyncStarters |-> "idle"]
    /\ sFn = [l \in SyncStarters |-> "none"]
    /\ sPhase = [l \in SyncStarters |-> 0]
    /\ sCat = [l \in SyncStarters |-> 0]
    /\ sFailed = [l \in SyncStarters |-> FALSE]
    /\ sResult = [l \in SyncStarters |-> "none"]
    /\ cPc = "idle"
    /\ cLog = 0
    /\ cancelOk = {}
    /\ iterAfterCancel = [l \in SyncStarters |-> 0]

(***************************************************************************)
(* Claims about the sync task log (checked under SpecSync / SpecSyncRun)   *)
(***************************************************************************)
\* C14 (as claimed): in every reachable state each task id has at most one
\* RUNNING row in sync_task_logs, whatever job functions start concurrently.
C14_OneRunningRowPerTask ==
    \A fn \in JobFns : Cardinality(RunningRows(TaskIdOf(fn))) <= 1

C33_NotBothSelfCancel ==
    \A a, b \in SyncStarters :
        (a # b /\ sFn[a] = "run_period_collect" /\ sFn[b] = "run_period_collect")
            => ~(sResult[a] = "concurrent_conflict" /\ sResult[b] = "concurrent_conflict")

\* C34: cancel_sync_task sets a row to CANCELLED and adds its id to
\* _cancelled_logs only if the row is RUNNING at the moment of its atomic
\* update; called for a row that is missing, COMPLETED, FAILED or CANCELLED
\* it returns failure, and its steps leave the rows and the set as they are.
C34_CancelOnlyRunning ==
    [][/\ (cPc = "idle" /\ cPc' = "mark") =>
             /\ syncLogs[cLog'].status = "RUNNING"
             /\ syncLogs'[cLog'].status = "CANCELLED"
       /\ (cancelled_logs' # cancelled_logs /\ cancelled_logs \subseteq cancelled_logs') =>
             /\ cPc = "mark" /\ cancelled_logs' = cancelled_logs \cup {cLog}
             /\ cancelOk' = cancelOk \cup {cLog}
       /\ (cPc = "idle" /\ cPc' # "idle" /\ syncLogs[cLog'].status # "RUNNING") =>
             /\ cPc' = "find"
             /\ syncLogs' = syncLogs /\ cancelled_logs' = cancelled_logs
       /\ cPc = "find" =>
             /\ cancelOk' = cancelOk
             /\ cPc' = "idle" => (syncLogs' = syncLogs /\ cancelled_logs' = cancelled_logs)
      ]_vars

\* C34 witness: one cancel call succeeded on a RUNNING row, and a later call
\* for a COMPLETED row is being refused
C34_Witness ==
    /\ cPc = "find"
    /\ syncLogs[cLog].status = "COMPLETED"
    /\ cancelOk # {} /\ cLog \notin cancelOk

\* C16 (as claimed): once cancel_sync_task has returned success for the log id
\* of a run_period_collect and that job has returned, the row is CANCELLED and
\* the log id is no longer in _cancelled_logs.
C16_CancelledAfterReturn ==
    \A l \in SyncStarters :
        (sFn[l] = "run_period_collect" /\ l \in cancelOk /\ sPc[l] = "returned")
            => (syncLogs[l].status = "CANCELLED" /\ l \notin cancelled_logs)

(***************************************************************************)
(* The webhook rendezvous: main.py, api/mengla_routes.py and               *)
(* api/webhook_routes.py each define a handler of                          *)
(* POST .../mengla-notify that stores the callback's payload at            *)
(* mengla:exec:<execution_id>, and MengLaService.query (core/client.py)    *)
(* polls that key with GET and removes it with DELETE.  One execution id   *)
(* is modelled.  A callback carries its status; a heartbeat callback       *)
(* (status running/sync/pending/queued) carries no resultData, so what a   *)
(* handler stores for it is the payload itself, which the dispatcher       *)
(* recognises by its status; any other callback stores a result.  The key's *)
(* TTL of 30 minutes is longer than the time modelled.                      *)
(***************************************************************************)
Handlers == {"main", "mengla_routes", "webhook_routes"}
HeartbeatStatuses == {"running", "sync", "pending", "queued"}
\* the statuses the modelled callbacks carry: two heartbeat ones and a final one
Statuses == {"running", "queued", "completed"}
Signatures == {"missing", "wrong", "valid"}

\* Depends(require_webhook_signature): only the handler of webhook_routes has it
HasSignatureCheck(h) == h = "webhook_routes"

\* the status test before the SET: only the handler of webhook_routes has it
HasHeartbeatSkip(h) == h = "webhook_routes"

\* require_webhook_signature: the HTTP status it answers (200: it returned None)
require_webhook_signature(secret, sig) ==
    IF ~secret THEN 200
    ELSE IF sig = "missing" THEN 403
    ELSE IF sig # "valid" THEN 403
    ELSE 200

\* value = payload.get("resultData") or ... or payload, as the dispatcher reads it back
StoredValue(status) == IF status \in HeartbeatStatuses THEN "heartbeat" ELSE "real"

\* mengla_webhook of handler h, for a request with the given signature header
\* and payload status, WEBHOOK_SECRET being configured or not
WebhookPost(h, secret, sig, status) ==
    LET code == IF HasSignatureCheck(h) THEN require_webhook_signature(secret, sig) ELSE 200
        skip == code = 200 /\ HasHeartbeatSkip(h) /\ status \in HeartbeatStatuses
        write == code = 200 /\ ~skip
    IN  /\ execKey' = IF write THEN StoredValue(status) ELSE execKey
        /\ whLast' = [handler |-> h, secret |-> secret, sig |-> sig, status |-> status,
                      code |-> code, skipped |-> skip, seq |-> 1 - whLast.seq]
        /\ lastStored' = IF write THEN StoredValue(status) ELSE lastStored
        /\ realStored' = IF write /\ StoredValue(status) = "real"
                            /\ dPc \notin {"idle", "done"} /\ now < dDeadline
                         THEN TRUE ELSE realStored
        /\ UNCHANGED <<dPc, dData, dDeadline, dOutcome, lostReal>>

\* query: _request_mengla returned the execution id; deadline = time.time() + timeout_seconds
DStart ==
    /\ dPc = "idle"
    /\ dPc' = "loop"
    /\ dDeadline' = now + WebhookTimeout
    /\ UNCHANGED <<execKey, whLast, lastStored, realStored, dData, dOutcome, lostReal>>

\* while time.time() < deadline: data = await redis_client.get(exec_key), and
\* the branch on what was read; after the loop, TimeoutError
DGet ==
    /\ dPc = "loop"
    /\ IF now < dDeadline
       THEN /\ dData' = execKey
            /\ dPc' = CASE execKey = "none" -> "sleep"
                        [] execKey = "heartbeat" -> "delStale"
                        [] OTHER -> "delResult"
            /\ UNCHANGED dOutcome
       ELSE /\ dPc' = "done"
            /\ dOutcome' = "TimeoutError"
            /\ UNCHANGED dData
    /\ UNCHANGED <<execKey, whLast, lastStored, realStored, dDeadline, lostReal>>

\* await redis_client.delete(exec_key) of either branch; its exception is swallowed
DDelete(ok) ==
    /\ dPc \in {"delStale", "delResult"}
    /\ execKey' = IF ok THEN "none" ELSE execKey
    /\ lostReal' = IF ok /\ dPc = "delStale" /\ execKey = "real" THEN TRUE ELSE lostReal
    /\ IF dPc = "delStale"
       THEN dPc' = "sleep" /\ UNCHANGED dOutcome
       ELSE dPc' = "done" /\ dOutcome' = dData
    /\ UNCHANGED <<whLast, lastStored, realStored, dData, dDeadline>>

\* await asyncio.sleep(...) returns
DSleep ==
    /\ dPc = "sleep"
    /\ dPc' = "loop"
    /\ UNCHANGED <<execKey, whLast, lastStored, realStored, dData, dDeadline, dOutcome, lostReal>>

WebhookInit ==
    /\ execKey = "none"
    /\ whLast = [handler |-> "none", secret |-> FALSE, sig |-> "missing", status |-> "none",
                 code |-> 0, skipped |-> FALSE, seq |-> 0]
    /\ lastStored = "none"
    /\ realStored = FALSE
    /\ lostReal = FALSE
    /\ dPc = "idle"
    /\ dData = "none"
    /\ dDeadline = 0
    /\ dOutcome = "none"

(***************************************************************************)
(* Claims about the webhook rendezvous (checked under SpecWebhook)         *)
(***************************************************************************)
\* a step that is one POST to the webhook
PostStep == whLast'.seq # whLast.seq

\* C22 (as claimed): when the webhook stored a real result while the dispatcher
\* was polling and before its deadline, and that result is the last value the
\* webhook stored, the dispatcher returns the real result; and the dispatcher
\* never returns a heartbeat payload.
C22_WebhookRendezvous ==
    /\ (dPc = "done" /\ realStored /\ lastStored = "real") => dOutcome = "real"
    /\ dOutcome # "heartbeat"

\* C23 (as claimed): a POST that was not refused and whose status is
\* running/sync/pending/queued is answered with skipped and leaves the
\* rendezvous key as it was.
C23_HeartbeatNeverStored ==
    [][ (PostStep /\ whLast'.status \in HeartbeatStatuses /\ whLast'.code = 200)
            => (whLast'.skipped /\ execKey' = execKey) ]_vars

\* C24 (as claimed): with WEBHOOK_SECRET configured, a POST whose
\* X-Signature-256 is missing or wrong is refused and writes nothing; a POST is
\* refused for its signature only when the secret is configured.
C24_SignatureRequired ==
    [][ /\ (PostStep /\ whLast'.secret /\ whLast'.sig # "valid")
            => (whLast'.code = 403 /\ execKey' = execKey)
        /\ (PostStep /\ whLast'.code = 403) => whLast'.secret ]_vars

(***************************************************************************)
(* infra/metrics.py: MetricsCollector.  record_success and record_failure  *)
(* run under self._lock; the lock is taken, the global counters are        *)
(* updated, then _update_daily_metrics updates the counters of the day     *)
(* (date_key), after dropping the days older than 30 days, and the lock is *)
(* released.  Of CollectMetrics the three task counters are modelled.      *)
(***************************************************************************)
RecCallers == 1..NumRecCallers
Days == 0..MaxDay

\* _cleanup_old_daily_metrics: max_days
MetricsMaxDays == 30

\* CollectMetrics()
NewCollectMetrics == [total_tasks |-> 0, success_count |-> 0, fail_count |-> 0]

\* an update that counts a failure without counting the task
CountedNoTotalOnFailure(mt, success) ==
    IF success
    THEN [mt EXCEPT !.total_tasks = @ + 1, !.success_count = @ + 1]
    ELSE [mt EXCEPT !.fail_count = @ + 1]

\* total_tasks += 1, then success_count += 1 or fail_count += 1
Counted(mt, success) ==
    IF success
    THEN [mt EXCEPT !.total_tasks = @ + 1, !.success_count = @ + 1]
    ELSE [mt EXCEPT !.total_tasks = @ + 1, !.fail_count = @ + 1]

\* _cleanup_old_daily_metrics: the days before the cutoff are deleted
CleanedDaily(dm, day) ==
    [d \in {e \in DOMAIN dm : ~(e < day - MetricsMaxDays)} |-> dm[d]]

\* record_success / record_failure: async with self._lock, and the update of
\* self._metrics
RecordGlobal(c, success) ==
    /\ mcPc[c] = "idle"
    /\ mcLock = 0
    /\ _metrics.total_tasks < MaxRecords
    /\ mcLock' = c
    /\ _metrics' = Counted(_metrics, success)
    /\ mcPc' = [mcPc EXCEPT ![c] = "daily"]
    /\ mcSuccess' = [mcSuccess EXCEPT ![c] = success]
    /\ mcDate' = [mcDate EXCEPT ![c] = today]
    /\ UNCHANGED <<_daily_metrics, today>>

\* _update_daily_metrics(date_key, ...), and the lock is released
RecordDaily(c) ==
    /\ mcPc[c] = "daily"
    /\ LET cleaned == CleanedDaily(_daily_metrics, today)
           daily == IF mcDate[c] \notin DOMAIN cleaned THEN NewCollectMetrics
                    ELSE cleaned[mcDate[c]]
       IN  _daily_metrics' = [d \in DOMAIN cleaned \cup {mcDate[c]} |->
                                 IF d = mcDate[c] THEN Counted(daily, mcSuccess[c])
                                 ELSE cleaned[d]]
    /\ mcLock' = 0
    /\ mcPc' = [mcPc EXCEPT ![c] = "idle"]
    /\ mcSuccess' = [mcSuccess EXCEPT ![c] = FALSE]
    /\ mcDate' = [mcDate EXCEPT ![c] = 0]
    /\ UNCHANGED <<_metrics, today>>

\* MetricsCollector.reset
MetricsReset ==
    /\ mcLock = 0
    /\ _metrics # NewCollectMetrics
    /\ _metrics' = NewCollectMetrics
    /\ _daily_metrics' = [d \in {} |-> NewCollectMetrics]
    /\ UNCHANGED <<mcLock, mcPc, mcSuccess, mcDate, today>>

\* datetime.utcnow() moves on by one day, or past the retention of the daily metrics
DayAdvance(n) ==
    /\ today + n <= MaxDay
    /\ today' = today + n
    /\ UNCHANGED <<_metrics, _daily_metrics, mcLock, mcPc, mcSuccess, mcDate>>

MetricsInit ==
    /\ _metrics = NewCollectMetrics
    /\ _daily_metrics = [d \in {} |-> NewCollectMetrics]
    /\ mcLock = 0
    /\ mcPc = [c \in RecCallers |-> "idle"]
    /\ mcSuccess = [c \in RecCallers |-> FALSE]
    /\ mcDate = [c \in RecCallers |-> 0]
    /\ today = 0

(***************************************************************************)
(* Claims about the metrics (checked under SpecMetrics)                    *)
(***************************************************************************)
\* C26 (metrics accounting): at every moment, also inside an operation,
\* total_tasks = success_count + fail_count in the global metrics and in the
\* metrics of every day.
C26_MetricsAccounting ==
    /\ _metrics.total_tasks = _metrics.success_count + _metrics.fail_count
    /\ \A d \in DOMAIN _daily_metrics :
         _daily_metrics[d].total_tasks =
            _daily_metrics[d].success_count + _daily_metrics[d].fail_count

\* C26 witness: a success and a failure were recorded today, and the day of an
\* earlier record has been dropped from the daily metrics
C26_Witness ==
    /\ mcLock = 0
    /\ _metrics.success_count >= 1 /\ _metrics.fail_count >= 1
    /\ _metrics.total_tasks = MaxRecords
    /\ \E d \in DOMAIN _daily_metrics :
         /\ _daily_metrics[d].fail_count >= 1 /\ _daily_metrics[d].success_count >= 1
         /\ _daily_metrics[d].total_tasks < _metrics.total_tasks
    /\ Cardinality(DOMAIN _daily_metrics) = 1
    /\ today > MetricsMaxDays

(***************************************************************************)
(* infra/resilience.py: retry_async around a function that goes through    *)
(* the circuit breaker.  This is the shape of with_resilience              *)
(* (retry_async(execute), execute = circuit.call(func)) and of the          *)
(* scheduler's query_with_retry (retry_async(query_mengla), query_mengla    *)
(* calling circuit.call(fetch_from_service)).  A budget of one attempt is   *)
(* query_mengla called without a retry wrapper.                             *)
(***************************************************************************)
FetchResults == {"ok", "retryable", "fatal"}

\* is_retryable_exception: CircuitBreakerError and other errors are not retryable
is_retryable_exception(e) == e = "retryable"

\* calculate_delay with the default base_delay, in whole seconds
RetryDelay == 1

\* retry_async starts; _max_attempts = max_attempts or RETRY_CONFIG["max_attempts"]
RetryStart(budget) ==
    /\ rPc = "idle"
    /\ rPc' = "attempt"
    /\ rBudget' = budget
    /\ rAttempt' = 0
    /\ rOutcome' = "none"
    /\ rUpstreamFailures' = 0
    /\ rCircuitFailures' = 0
    /\ UNCHANGED rWakeAt
    /\ UNCHANGED breakerVars

\* an attempt enters circuit.call: _check_state admits it (func starts) or
\* raises CircuitBreakerError, which is not retryable
RetryAttempt ==
    /\ rPc = "attempt"
    /\ LET r == CheckState(cb, now) IN
       /\ cb' = r.cb
       /\ BreakerGhosts(cb, r.cb, "call", r.allowed)
       /\ UNCHANGED cbPc
       /\ rPc' = IF r.allowed THEN "fetch" ELSE "done"
       /\ rOutcome' = IF r.allowed THEN rOutcome ELSE "CircuitBreakerError"
    /\ UNCHANGED <<rBudget, rAttempt, rWakeAt, rUpstreamFailures, rCircuitFailures>>

\* func returns or raises inside circuit.call: record_success and the result
\* is returned, or record_failure and the exception reaches retry_async, which
\* re-raises it, sleeps before the next attempt, or raises RetryError
RetryFetch(res) ==
    /\ rPc = "fetch"
    /\ IF res = "ok"
       THEN /\ cb' = RecordSuccess(cb)
            /\ BreakerGhosts(cb, RecordSuccess(cb), "success", FALSE)
            /\ rPc' = "done"
            /\ rOutcome' = "returned"
            /\ UNCHANGED <<rAttempt, rWakeAt, rUpstreamFailures, rCircuitFailures>>
       ELSE /\ cb' = RecordFailure(cb, now)
            /\ BreakerGhosts(cb, RecordFailure(cb, now), "failure", FALSE)
            /\ rUpstreamFailures' = rUpstreamFailures + 1
            /\ rCircuitFailures' = rCircuitFailures + 1
            /\ IF ~is_retryable_exception(res)
               THEN /\ rPc' = "done"
                    /\ rOutcome' = "raised"
                    /\ UNCHANGED <<rAttempt, rWakeAt>>
               ELSE IF rAttempt < rBudget - 1
               THEN /\ rPc' = "sleeping"
                    /\ rWakeAt' = now + RetryDelay
                    /\ UNCHANGED <<rAttempt, rOutcome>>
               ELSE /\ rPc' = "done"
                    /\ rOutcome' = "RetryError"
                    /\ UNCHANGED <<rAttempt, rWakeAt>>
    /\ UNCHANGED cbPc
    /\ UNCHANGED rBudget

\* asyncio.sleep(delay) returns: the next attempt of the for loop
RetryWake ==
    /\ rPc = "sleeping"
    /\ now >= rWakeAt
    /\ rPc' = "attempt"
    /\ rAttempt' = rAttempt + 1
    /\ UNCHANGED <<rBudget, rWakeAt, rOutcome, rUpstreamFailures, rCircuitFailures>>
    /\ UNCHANGED breakerVars

\* the caller makes its next call
RetryAgain ==
    /\ rPc = "done"
    /\ rPc' = "idle"
    /\ UNCHANGED <<rBudget, rAttempt, rWakeAt, rOutcome, rUpstreamFailures, rCircuitFailures>>
    /\ UNCHANGED breakerVars

RetryInit ==
    /\ rPc = "idle"
    /\ rBudget = 1
    /\ rAttempt = 0
    /\ rWakeAt = 0
    /\ rOutcome = "none"
    /\ rUpstreamFailures = 0
    /\ rCircuitFailures = 0

(***************************************************************************)
(* Claims about retry and breaker (checked under SpecRetry)                *)
(***************************************************************************)
\* C27 (as claimed): a call whose upstream failed with a retryable error and
\* then succeeded on a retry returns successfully without a failure recorded
\* in the circuit breaker; a failure reaches the breaker only once the retry
\* budget is used up.
C27_RetryBeforeBreaker ==
    /\ (rPc = "done" /\ rOutcome = "returned") => rCircuitFailures = 0
    /\ (rCircuitFailures > 0 /\ rOutcome # "raised") => rAttempt = rBudget - 1

(***************************************************************************)
(* scheduler.py: the exception paths of the job functions the scheduler    *)
(* runs.  A job works through JobItems items (a category of                *)
(* run_period_collect's trend loop, a check of run_backfill_check, a       *)
(* claimed subtask of run_crawl_queue_once); for each item it runs the     *)
(* step, then records the item with a Mongo command, which can raise.      *)
(* _collect_with_retry returns False for every Exception of query_mengla;  *)
(* CancelledError is not an Exception.                                     *)
(***************************************************************************)
SchedulerJobs == {"run_period_collect", "run_backfill_check", "run_crawl_queue_once"}
StepResults == {"ok", "fail", "lookup_error", "cancelled"}

\* the job has the handler `except (Exception, asyncio.CancelledError)` that
\* marks the log FAILED and re-raises
HasOuterHandler(fn) == fn \in {"run_period_collect", "run_backfill_check"}

\* the scheduler starts the job function; the overlap guard and the creation
\* of the log are Mongo commands outside every try block
JobStart(fn, mongoOk) ==
    /\ jPc = "idle"
    /\ jFn' = fn
    /\ jItem' = 1
    /\ jLast' = "none"
    /\ jFailedRecorded' = 0
    /\ jStepFailures' = 0
    /\ IF mongoOk
       THEN jPc' = "step" /\ jOutcome' = "none"
       ELSE jPc' = "done" /\ jOutcome' = "raised"

\* the step of the item: _collect_with_retry / query_mengla returns, fails, or
\* the job is cancelled while it waits; in run_backfill_check the find_one
\* before it can raise, which the inner handler only logs
JobStepRun(res) ==
    /\ jPc = "step"
    /\ res = "lookup_error" => jFn = "run_backfill_check"
    /\ IF res = "cancelled"
       THEN /\ jPc' = "done"
            /\ jOutcome' = "raised"
            /\ UNCHANGED <<jLast, jStepFailures>>
       ELSE /\ jPc' = "record"
            /\ jLast' = IF res = "fail" THEN "fail" ELSE "ok"
            /\ jStepFailures' = IF res = "ok" THEN jStepFailures ELSE jStepFailures + 1
            /\ UNCHANGED jOutcome
    /\ UNCHANGED <<jFn, jItem, jFailedRecorded>>

\* the item is recorded: update_sync_task_progress (completed_delta or
\* failed_delta), or set_subtask_success / set_subtask_failed with
\* inc_job_stats.  An exception of the Mongo command is re-raised by the outer
\* handler; in run_crawl_queue_once the one of set_subtask_success is caught
\* and the subtask is then recorded as failed, the one of set_subtask_failed
\* propagates.
JobRecord(mongoOk) ==
    /\ jPc = "record"
    /\ IF mongoOk
       THEN /\ jFailedRecorded' = IF jLast = "fail" THEN jFailedRecorded + 1
                                  ELSE jFailedRecorded
            /\ IF jItem < JobItems
               THEN jItem' = jItem + 1 /\ jPc' = "step"
               ELSE jPc' = "finish" /\ UNCHANGED jItem
            /\ UNCHANGED <<jLast, jStepFailures, jOutcome>>
       ELSE IF ~HasOuterHandler(jFn) /\ jLast = "ok"
       THEN /\ jLast' = "fail"
            /\ jStepFailures' = jStepFailures + 1
            /\ UNCHANGED <<jPc, jItem, jFailedRecorded, jOutcome>>
       ELSE /\ jPc' = "done"
            /\ jOutcome' = "raised"
            /\ UNCHANGED <<jItem, jLast, jFailedRecorded, jStepFailures>>
    /\ UNCHANGED jFn

\* finish_sync_task_log / finish_job_if_done, and the job returns
JobFinish(mongoOk) ==
    /\ jPc = "finish"
    /\ jPc' = "done"
    /\ jOutcome' = IF mongoOk THEN "returned" ELSE "raised"
    /\ UNCHANGED <<jFn, jItem, jLast, jFailedRecorded, jStepFailures>>

\* the scheduler's next firing
JobIdle ==
    /\ jPc = "done"
    /\ jPc' = "idle"
    /\ UNCHANGED <<jFn, jItem, jLast, jFailedRecorded, jStepFailures, jOutcome>>

JobsInit ==
    /\ jPc = "idle"
    /\ jFn = "none"
    /\ jItem = 1
    /\ jLast = "none"
    /\ jFailedRecorded = 0
    /\ jStepFailures = 0
    /\ jOutcome = "none"

(***************************************************************************)
(* Claims about the scheduler's job functions (checked under SpecJobs)     *)
(***************************************************************************)
\* C28 (as claimed): no job function ends by raising to the scheduler, and
\* when a job has ended every step that failed was recorded as a failed item.
C28_JobsNeverRaise ==
    /\ jOutcome # "raised"
    /\ (jPc = "done" /\ jOutcome = "returned") => jFailedRecorded = jStepFailures

(***************************************************************************)
(* alerting.py: the rule high_latency of AlertManager, as                  *)
(* _init_default_rules builds it from ALERTING_CONFIG (utils/config.py),   *)
(* and check_all_rules for that rule.  The snapshot's avg_duration_ms is   *)
(* kept in milliseconds: avg_duration_ms / 1000 compared with 30.0 is      *)
(* avg_duration_ms compared with 30000.  The alert clock counts units of   *)
(* 300 seconds.                                                            *)
(***************************************************************************)
\* ALERTING_CONFIG rule high_latency: "threshold": 30.0 (seconds), in milliseconds
HighLatencyThresholdMs == 30 * 1000

\* ALERTING_CONFIG rule high_latency: "cooldown": 600 (seconds), in clock units
HighLatencyCooldown == 2

\* rule_config.get("comparison", "lt"): the rule's entry has no "comparison"
HighLatencyComparison == "lt"

\* avg_duration_ms of the snapshots tried
AvgDurations == {0, 29000, 30000, 30500, 31000}

\* AlertRule.should_alert
should_alert(comparison, current_value, threshold) ==
    IF comparison = "lt" THEN current_value < threshold
    ELSE current_value > threshold

\* AlertRule.is_in_cooldown
is_in_cooldown(last_triggered, t, cooldown) ==
    IF last_triggered = NoTime THEN FALSE
    ELSE t - last_triggered < cooldown

\* check_all_rules for high_latency: _trigger_alert, _resolve_alert, or nothing
CheckHighLatency(avg) ==
    /\ alLastValue' = avg
    /\ alSeq' = 1 - alSeq
    /\ IF should_alert(HighLatencyComparison, avg, HighLatencyThresholdMs)
       THEN IF ~alFiring /\ ~is_in_cooldown(alLastTriggered, alNow, HighLatencyCooldown)
            THEN /\ alFiring' = TRUE
                 /\ alLastTriggered' = alNow
            ELSE UNCHANGED <<alFiring, alLastTriggered>>
       ELSE /\ alFiring' = FALSE
            /\ UNCHANGED alLastTriggered
    /\ UNCHANGED alNow

\* datetime.utcnow() moves on
AlertTick ==
    /\ alNow < AlertHorizon
    /\ alNow' = alNow + 1
    /\ UNCHANGED <<alFiring, alLastTriggered, alLastValue, alSeq>>

AlertInit ==
    /\ alFiring = FALSE
    /\ alLastTriggered = NoTime
    /\ alLastValue = 0
    /\ alSeq = 0
    /\ alNow = 0

(***************************************************************************)
(* Claims about alerting (checked under SpecAlert)                         *)
(***************************************************************************)
\* C29 (as claimed): a check moves high_latency to firing exactly when the
\* snapshot's average duration is above 30 seconds and the rule is neither
\* firing nor in cooldown; with an average of at most 30 seconds it never
\* moves to firing.
C29_HighLatencyFires ==
    [][ alSeq' # alSeq
          => ((~alFiring /\ alFiring')
                <=> (/\ alLastValue' > HighLatencyThresholdMs
                     /\ ~alFiring
                     /\ ~is_in_cooldown(alLastTriggered, alNow, HighLatencyCooldown))) ]_vars

(***************************************************************************)
(* L1Cache (infra/cache.py) as a keyed map                                 *)
(*                                                                         *)
(* The operations run under L1Cache._lock without awaiting anything, so    *)
(* each one is a single step.  The entries stay within the TTL and the     *)
(* cache never holds more than max_size keys (L1Identities has fewer).     *)
(***************************************************************************)
L1Actions == {"high", "hot"}
L1CatIds == {"", "17"}
L1Values == {"v1", "v2"}
MaxL1Gets == 2

\* the identities callers pass: (action, cat_id, granularity, period_key)
L1Identities == {<<a, c, "day", "20250101">> : a \in L1Actions, c \in L1CatIds}

\* a key builder that drops the category
_build_key_without_cat(action, cat_id, granularity, period_key) ==
    <<action, "all", granularity, period_key>>

\* f"{action}:{cat_id or 'all'}:{granularity}:{period_key}"
_build_key(action, cat_id, granularity, period_key) ==
    <<action, IF cat_id = "" THEN "all" ELSE cat_id, granularity, period_key>>

L1KeyOf(i) == _build_key(i[1], i[2], i[3], i[4])

\* TTLCache.get(key): the value, or None
L1Lookup(c, i) == IF L1KeyOf(i) \in DOMAIN c THEN c[L1KeyOf(i)] ELSE "None"

L1CacheInit ==
    /\ _cache = [k \in {} |-> "None"]
    /\ _hits = 0
    /\ _misses = 0
    /\ l1Got = "None"
    /\ l1Latest = [i \in L1Identities |-> "None"]
    /\ l1Op = [op |-> "none", id |-> <<>>, seq |-> 0]

\* L1Cache.get
L1Get(i) ==
    /\ _hits + _misses < MaxL1Gets
    /\ l1Got' = L1Lookup(_cache, i)
    /\ IF L1Lookup(_cache, i) # "None"
         THEN _hits' = _hits + 1 /\ UNCHANGED _misses
         ELSE _misses' = _misses + 1 /\ UNCHANGED _hits
    /\ l1Op' = [op |-> "get", id |-> i, seq |-> 1 - l1Op.seq]
    /\ UNCHANGED <<_cache, l1Latest>>

\* L1Cache.set
L1Set(i, v) ==
    /\ _cache' = [k \in DOMAIN _cache \cup {L1KeyOf(i)} |->
                     IF k = L1KeyOf(i) THEN v ELSE _cache[k]]
    /\ l1Latest' = [l1Latest EXCEPT ![i] = v]
    /\ l1Op' = [op |-> "set", id |-> i, seq |-> 1 - l1Op.seq]
    /\ UNCHANGED <<_hits, _misses, l1Got>>

\* L1Cache.delete
L1Delete(i) ==
    /\ _cache' = [k \in DOMAIN _cache \ {L1KeyOf(i)} |-> _cache[k]]
    /\ l1Latest' = [l1Latest EXCEPT ![i] = "None"]
    /\ l1Op' = [op |-> "delete", id |-> i, seq |-> 1 - l1Op.seq]
    /\ UNCHANGED <<_hits, _misses, l1Got>>

\* L1Cache.clear
L1Clear ==
    /\ _cache' = [k \in {} |-> "None"]
    /\ l1Latest' = [i \in L1Identities |-> "None"]
    /\ l1Op' = [op |-> "clear", id |-> <<>>, seq |-> 1 - l1Op.seq]
    /\ UNCHANGED <<_hits, _misses, l1Got>>

PkFirstYear == 2024
PkLastYear == 2025
Granularities == {"day", "month", "quarter", "year"}
\* ranges of the day granularity end at most this many months after the
\* month they start in
MaxDayMonths == 2
MonthsApart(a, b) == (b[1] * 12 + b[2]) - (a[1] * 12 + a[2])

IsLeap(y) == (y % 4 = 0 /\ y % 100 # 0) \/ y % 400 = 0
DaysInMonth(y, m) ==
    IF m = 2 THEN (IF IsLeap(y) THEN 29 ELSE 28)
    ELSE IF m \in {4, 6, 9, 11} THEN 30 ELSE 31

\* every date of the years considered, and the number that orders the dates
PkAllDates ==
    {dt \in (PkFirstYear..PkLastYear) \X (1..12) \X (1..31) : dt[3] <= DaysInMonth(dt[1], dt[2])}
DateOrd(dt) == dt[1] * 10000 + dt[2] * 100 + dt[3]

\* the start and end dates requests are drawn from: the first, the
\* fifteenth and the last day of every month
PkInputDates == {dt \in PkAllDates : dt[3] \in {1, 15, DaysInMonth(dt[1], dt[2])}}

\* comparison of two datetimes, and of two keys of one granularity
TupleLess(a, b) ==
    \E i \in 1..Len(a) : a[i] < b[i] /\ \A j \in 1..(i - 1) : a[j] = b[j]
TupleLeq(a, b) == a = b \/ TupleLess(a, b)

\* d + timedelta(days=1)
NextDay(dt) ==
    IF dt[3] < DaysInMonth(dt[1], dt[2]) THEN <<dt[1], dt[2], dt[3] + 1>>
    ELSE IF dt[2] < 12 THEN <<dt[1], dt[2] + 1, 1>>
    ELSE <<dt[1] + 1, 1, 1>>

make_period_keys(dt) ==
    LET quarter == (dt[2] - 1) \div 3 + 1
    IN  [day |-> <<dt[1], dt[2], dt[3]>>,
         month |-> <<dt[1], dt[2]>>,
         quarter |-> <<dt[1], quarter>>,
         year |-> <<dt[1]>>]

\* the while loops of period_keys_in_range
RECURSIVE DayKeys(_, _)
DayKeys(d, end_d) ==
    IF TupleLeq(d, end_d) THEN <<d>> \o DayKeys(NextDay(d), end_d) ELSE <<>>

RECURSIVE MonthKeys(_, _, _, _)
MonthKeys(y, m, ey, em) ==
    IF TupleLeq(<<y, m>>, <<ey, em>>)
      THEN <<(<<y, m>>)>> \o (IF m = 12 THEN MonthKeys(y + 1, 1, ey, em)
                                       ELSE MonthKeys(y, m + 1, ey, em))
      ELSE <<>>

RECURSIVE QuarterKeys(_, _, _, _)
QuarterKeys(y, q, ey, eq) ==
    IF TupleLeq(<<y, q>>, <<ey, eq>>)
      THEN <<(<<y, q>>)>> \o (IF q = 4 THEN QuarterKeys(y + 1, 1, ey, eq)
                                      ELSE QuarterKeys(y, q + 1, ey, eq))
      ELSE <<>>

RECURSIVE YearKeys(_, _)
YearKeys(y, ey) ==
    IF y <= ey THEN <<(<<y>>)>> \o YearKeys(y + 1, ey) ELSE <<>>

\* the function with the branch of the default granularity only
period_keys_by_day(g, start_date, end_date) ==
    LET start_d == IF TupleLess(end_date, start_date) THEN end_date ELSE start_date
        end_d == IF TupleLess(end_date, start_date) THEN start_date ELSE end_date
    IN  DayKeys(start_d, end_d)

period_keys_in_range(g, start_date, end_date) ==
    LET start_d == IF TupleLess(end_date, start_date) THEN end_date ELSE start_date
        end_d == IF TupleLess(end_date, start_date) THEN start_date ELSE end_date
    IN  CASE g = "day" -> DayKeys(start_d, end_d)
          [] g = "month" -> MonthKeys(start_d[1], start_d[2], end_d[1], end_d[2])
          [] g = "quarter" ->
                QuarterKeys(start_d[1], (start_d[2] - 1) \div 3 + 1,
                            end_d[1], (end_d[2] - 1) \div 3 + 1)
          [] g = "year" -> YearKeys(start_d[1], end_d[1])
          [] OTHER -> DayKeys(start_d, end_d)

PeriodInit ==
    /\ pkGranularity = "none"
    /\ pkStart = <<PkFirstYear, 1, 1>>
    /\ pkEnd = <<PkFirstYear, 1, 1>>
    /\ pkKeys = <<>>

\* one call of period_keys_in_range (the function is pure: every behaviour
\* makes one call, on any of the inputs)
PeriodKeysCall(g, start_date, end_date) ==
    /\ pkGranularity = "none"
    /\ pkGranularity' = g
    /\ pkStart' = start_date
    /\ pkEnd' = end_date
    /\ pkKeys' = period_keys_in_range(g, start_date, end_date)

\* C32: for start <= end the keys returned are exactly the period keys of
\* the buckets that hold a date of [start, end], strictly ascending (hence
\* without duplicates), the first the bucket of start and the last the
\* bucket of end.
C32_PeriodKeysInRange ==
    pkGranularity # "none" /\ TupleLeq(pkStart, pkEnd) =>
        /\ {pkKeys[i] : i \in 1..Len(pkKeys)} =
              {make_period_keys(dt)[pkGranularity] :
                  dt \in {x \in PkAllDates : DateOrd(pkStart) <= DateOrd(x)
                                                /\ DateOrd(x) <= DateOrd(pkEnd)}}
        /\ \A i \in 1..(Len(pkKeys) - 1) : TupleLess(pkKeys[i], pkKeys[i + 1])
        /\ pkKeys[1] = make_period_keys(pkStart)[pkGranularity]
        /\ pkKeys[Len(pkKeys)] = make_period_keys(pkEnd)[pkGranularity]

\* a quarter range from the end of February of a leap year into the next
\* year: five quarters
C32_Witness ==
    /\ pkGranularity = "quarter"
    /\ pkStart = <<2024, 2, 29>>
    /\ pkEnd = <<2025, 1, 15>>
    /\ pkKeys = << <<2024, 1>>, <<2024, 2>>, <<2024, 3>>, <<2024, 4>>, <<2025, 1>> >>

(***************************************************************************)
(* core/domain.py: the in-flight table of _fetch_mengla_data as a function *)
(* of the request's parameters.  A caller is modelled from the point where *)
(* its store probes have missed; the upstream call of a task is made with  *)
(* the MengLaQueryParams of the caller that created the task.              *)
(***************************************************************************)
NumFCallers == 2
FCallers == 1..NumFCallers

NoRequest ==
    [action |-> "none", catId |-> "", dateType |-> "", timest |-> "",
     starRange |-> "", endRange |-> "", product_id |-> "", extra |-> ""]

\* the keyword arguments of _fetch_mengla_data: trend requests over two
\* ranges, and list requests of two days, with and without product_id / extra
FRequests ==
    {[action |-> "industryTrendRange", catId |-> "17", dateType |-> "day", timest |-> "",
      starRange |-> r[1], endRange |-> r[2], product_id |-> "", extra |-> ""] :
        r \in {<<"2025-01-01", "2025-01-31">>, <<"2025-02-01", "2025-02-28">>}}
    \cup
    {[action |-> "high", catId |-> "17", dateType |-> "day", timest |-> t,
      starRange |-> "", endRange |-> "", product_id |-> p, extra |-> e] :
        t \in {"20250101", "20250102"}, p \in {"", "p1"}, e \in {"", "x"}}

\* request_key = f"{action}:{cat_id}:{granularity}:{period_key or ''}", where
\* period_key is None for the trend action and the key of timest otherwise
request_key(req) ==
    <<req.action, req.catId, req.dateType,
      IF req.action = "industryTrendRange" THEN "" ELSE req.timest>>

\* the parameters sent upstream that the request key has to tell apart
UpstreamParams(req) == <<req.starRange, req.endRange, req.product_id, req.extra>>

InflightInit ==
    /\ fPc = [c \in FCallers |-> "idle"]
    /\ fReq = [c \in FCallers |-> NoRequest]
    /\ fAwait = [c \in FCallers |-> 0]
    /\ fTask = [c \in FCallers |-> "none"]
    /\ fGot = [c \in FCallers |-> NoRequest]
    /\ inflightTable = [k \in {} |-> 0]

\* existing_task = IN_FLIGHT.get(request_key): await it, or create a task of
\* _fetch_and_persist, register it and await it
FetchCall(c, req) ==
    /\ fPc[c] = "idle"
    /\ fReq' = [fReq EXCEPT ![c] = req]
    /\ fPc' = [fPc EXCEPT ![c] = "await"]
    /\ IF request_key(req) \in DOMAIN inflightTable
       THEN /\ fAwait' = [fAwait EXCEPT ![c] = inflightTable[request_key(req)]]
            /\ UNCHANGED <<fTask, inflightTable>>
       ELSE /\ fAwait' = [fAwait EXCEPT ![c] = c]
            /\ fTask' = [fTask EXCEPT ![c] = "running"]
            /\ inflightTable' = [k \in DOMAIN inflightTable \cup {request_key(req)} |->
                                   IF k = request_key(req) THEN c ELSE inflightTable[k]]
    /\ UNCHANGED fGot

\* the task's service.query(params) and persistence end; the task has its result
FetchTaskDone(t) ==
    /\ fTask[t] = "running"
    /\ fTask' = [fTask EXCEPT ![t] = "done"]
    /\ UNCHANGED <<fPc, fReq, fAwait, fGot, inflightTable>>

\* `return await task` / `return await existing_task`; the creator removes its
\* task from the table if it is still the registered one
FetchReturn(c) ==
    /\ fPc[c] = "await"
    /\ fTask[fAwait[c]] = "done"
    /\ fGot' = [fGot EXCEPT ![c] = fReq[fAwait[c]]]
    /\ fPc' = [fPc EXCEPT ![c] = "done"]
    /\ inflightTable' =
          IF fAwait[c] = c /\ request_key(fReq[c]) \in DOMAIN inflightTable
                           /\ inflightTable[request_key(fReq[c])] = c
            THEN [k \in DOMAIN inflightTable \ {request_key(fReq[c])} |-> inflightTable[k]]
            ELSE inflightTable
    /\ UNCHANGED <<fReq, fAwait, fTask>>

\* C37 (as claimed): a caller that joins an in-flight task receives the result
\* of an upstream call made with its own starRange, endRange, product_id and
\* extra; two requests that differ in one of these never await the same task.
C37_JoinSameParameters ==
    /\ \A c \in FCallers :
          fPc[c] = "done" => UpstreamParams(fGot[c]) = UpstreamParams(fReq[c])
    /\ \A c, d \in FCallers :
          (fPc[c] = "await" /\ fPc[d] = "await" /\ fAwait[c] = fAwait[d])
              => UpstreamParams(fReq[c]) = UpstreamParams(fReq[d])

(***************************************************************************)
(* Specifications                                                          *)
(***************************************************************************)
Init ==
    /\ now = StartTime
    /\ BreakerInit
    /\ QueueInit
    /\ PressureInit
    /\ DedupInit
    /\ SyncInit
    /\ CacheInit
    /\ TrendInit
    /\ WebhookInit
    /\ MetricsInit
    /\ RetryInit
    /\ JobsInit
    /\ AlertInit
    /\ L1CacheInit
    /\ PeriodInit
    /\ DocInit
    /\ InflightInit

NextBreaker ==
    \/ Tick /\ UNCHANGED <<breakerVars, queueVars, pressureVars, dedupVars, syncVars, cacheVars, laterVars>>
    \/ \E c \in CbCallers : CbCall(c)
    \/ \E c \in CbCallers : CbReturnSuccess(c)
    \/ \E c \in CbCallers : CbReturnFailure(c)
    \/ \E c \in CbCallers : CbCancelled(c)
    \/ CbReset

SpecBreaker == Init /\ [][NextBreaker]_vars

\* the breaker without manual resets, with callers that keep calling and
\* admitted calls that end (the wrapped function returns, raises, or its task
\* is cancelled)
NextBreakerRun ==
    \/ Tick /\ UNCHANGED <<breakerVars, queueVars, pressureVars, dedupVars, syncVars, cacheVars, laterVars>>
    \/ \E c \in CbCallers : CbCall(c)
    \/ \E c \in CbCallers : CbReturnSuccess(c)
    \/ \E c \in CbCallers : CbReturnFailure(c)
    \/ \E c \in CbCallers : CbCancelled(c)

SpecBreakerRun ==
    /\ Init /\ [][NextBreakerRun]_vars
    /\ WF_vars(Tick /\ UNCHANGED <<breakerVars, queueVars, pressureVars, dedupVars, syncVars, cacheVars, laterVars>>)
    /\ \A c \in CbCallers :
          /\ WF_vars(CbCall(c))
          /\ WF_vars(CbReturnSuccess(c) \/ CbReturnFailure(c) \/ CbCancelled(c))

NextQueue ==
    \/ \E j \in JobIds : CreateJobInsertParent(j) /\ UNCHANGED <<now, breakerVars, pressureVars, dedupVars, syncVars, cacheVars, laterVars>>
    \/ \E j \in JobIds : CreateJobInsertSubtask(j) /\ UNCHANGED <<now, breakerVars, pressureVars, dedupVars, syncVars, cacheVars, laterVars>>
    \/ \E j \in JobIds : CreateJobLoopDone(j) /\ UNCHANGED <<now, breakerVars, pressureVars, dedupVars, syncVars, cacheVars, laterVars>>
    \/ \E j \in JobIds : CreateJobSetTotal(j) /\ UNCHANGED <<now, breakerVars, pressureVars, dedupVars, syncVars, cacheVars, laterVars>>
    \/ \E w \in Workers : WorkerGetNextJob(w) /\ UNCHANGED <<now, breakerVars, pressureVars, dedupVars, syncVars, cacheVars, laterVars>>
    \/ \E w \in Workers : WorkerClaim(w) /\ UNCHANGED <<now, breakerVars, pressureVars, dedupVars, syncVars, cacheVars, laterVars>>
    \/ \E w \in Workers : WorkerQueryOk(w) /\ UNCHANGED <<now, breakerVars, pressureVars, dedupVars, syncVars, cacheVars, laterVars>>
    \/ \E w \in Workers : WorkerQueryRaised(w) /\ UNCHANGED <<now, breakerVars, pressureVars, dedupVars, syncVars, cacheVars, laterVars>>
    \/ \E w \in Workers : WorkerSetSuccess(w) /\ UNCHANGED <<now, breakerVars, pressureVars, dedupVars, syncVars, cacheVars, laterVars>>
    \/ \E w \in Workers : WorkerSetFailed(w) /\ UNCHANGED <<now, breakerVars, pressureVars, dedupVars, syncVars, cacheVars, laterVars>>
    \/ \E w \in Workers : WorkerIncStats(w) /\ UNCHANGED <<now, breakerVars, pressureVars, dedupVars, syncVars, cacheVars, laterVars>>
    \/ \E w \in Workers : WorkerFinishCountOpen(w) /\ UNCHANGED <<now, breakerVars, pressureVars, dedupVars, syncVars, cacheVars, laterVars>>
    \/ \E w \in Workers : WorkerFinishCountFailed(w) /\ UNCHANGED <<now, breakerVars, pressureVars, dedupVars, syncVars, cacheVars, laterVars>>
    \/ \E w \in Workers : WorkerFinishSetStatus(w) /\ UNCHANGED <<now, breakerVars, pressureVars, dedupVars, syncVars, cacheVars, laterVars>>
    \/ AdminCancelJobs /\ UNCHANGED <<now, breakerVars, pressureVars, dedupVars, syncVars, cacheVars, laterVars>>
    \/ AdminCancelSubtasks /\ UNCHANGED <<now, breakerVars, pressureVars, dedupVars, syncVars, cacheVars, laterVars>>

SpecQueue == Init /\ [][NextQueue]_vars

\* the backfill scenario: the job is enqueued first (create_crawl_job has
\* returned), then the workers tick; every query_mengla returns
Enqueued == \A j \in JobIds : crPc[j] = "done"

CreateJobStep(j) ==
    (CreateJobInsertParent(j) \/ CreateJobInsertSubtask(j) \/ CreateJobLoopDone(j) \/ CreateJobSetTotal(j))
    /\ UNCHANGED <<now, breakerVars, pressureVars, dedupVars, syncVars, cacheVars, laterVars>>

WorkerTickStep(w) ==
    /\ Enqueued
    /\ (WorkerGetNextJob(w)
        \/ WorkerClaim(w)
        \/ WorkerQueryOk(w)
        \/ WorkerSetSuccess(w)
        \/ WorkerIncStats(w)
        \/ WorkerFinishCountOpen(w)
        \/ WorkerFinishCountFailed(w)
        \/ WorkerFinishSetStatus(w))
    /\ UNCHANGED <<now, breakerVars, pressureVars, dedupVars, syncVars, cacheVars, laterVars>>

NextBackfill ==
    \/ \E j \in JobIds : CreateJobInsertParent(j) /\ UNCHANGED <<now, breakerVars, pressureVars, dedupVars, syncVars, cacheVars, laterVars>>
    \/ \E j \in JobIds : CreateJobInsertSubtask(j) /\ UNCHANGED <<now, breakerVars, pressureVars, dedupVars, syncVars, cacheVars, laterVars>>
    \/ \E j \in JobIds : CreateJobLoopDone(j) /\ UNCHANGED <<now, breakerVars, pressureVars, dedupVars, syncVars, cacheVars, laterVars>>
    \/ \E j \in JobIds : CreateJobSetTotal(j) /\ UNCHANGED <<now, breakerVars, pressureVars, dedupVars, syncVars, cacheVars, laterVars>>
    \/ \E w \in Workers : Enqueued /\ WorkerGetNextJob(w) /\ UNCHANGED <<now, breakerVars, pressureVars, dedupVars, syncVars, cacheVars, laterVars>>
    \/ \E w \in Workers : Enqueued /\ WorkerClaim(w) /\ UNCHANGED <<now, breakerVars, pressureVars, dedupVars, syncVars, cacheVars, laterVars>>
    \/ \E w \in Workers : Enqueued /\ WorkerQueryOk(w) /\ UNCHANGED <<now, breakerVars, pressureVars, dedupVars, syncVars, cacheVars, laterVars>>
    \/ \E w \in Workers : Enqueued /\ WorkerSetSuccess(w) /\ UNCHANGED <<now, breakerVars, pressureVars, dedupVars, syncVars, cacheVars, laterVars>>
    \/ \E w \in Workers : Enqueued /\ WorkerIncStats(w) /\ UNCHANGED <<now, breakerVars, pressureVars, dedupVars, syncVars, cacheVars, laterVars>>
    \/ \E w \in Workers : Enqueued /\ WorkerFinishCountOpen(w) /\ UNCHANGED <<now, breakerVars, pressureVars, dedupVars, syncVars, cacheVars, laterVars>>
    \/ \E w \in Workers : Enqueued /\ WorkerFinishCountFailed(w) /\ UNCHANGED <<now, breakerVars, pressureVars, dedupVars, syncVars, cacheVars, laterVars>>
    \/ \E w \in Workers : Enqueued /\ WorkerFinishSetStatus(w) /\ UNCHANGED <<now, breakerVars, pressureVars, dedupVars, syncVars, cacheVars, laterVars>>

\* create_crawl_job runs to its end; every worker's tick keeps being scheduled
\* (APScheduler interval job) and each of its awaits returns
SpecBackfill ==
    /\ Init
    /\ [][NextBackfill]_vars
    /\ \A j \in JobIds : WF_vars(CreateJobStep(j))
    /\ \A w \in Workers : WF_vars(WorkerTickStep(w))

NextPressure ==
    \/ Tick /\ UNCHANGED <<breakerVars, queueVars, pressureVars, dedupVars, syncVars, cacheVars, laterVars>>
    \/ CreatePressure /\ UNCHANGED <<now, breakerVars, queueVars, dedupVars, syncVars, cacheVars, laterVars>>
    \/ \E p \in PCallers : PAcquireEnter(p) /\ UNCHANGED <<now, breakerVars, queueVars, dedupVars, syncVars, cacheVars, laterVars>>
    \/ \E p \in PCallers : PAcquire(p) /\ UNCHANGED <<now, breakerVars, queueVars, dedupVars, syncVars, cacheVars, laterVars>>
    \/ \E p \in PCallers : PCancelWaiting(p) /\ UNCHANGED <<now, breakerVars, queueVars, dedupVars, syncVars, cacheVars, laterVars>>
    \/ \E p \in PCallers : PWaitForInterval(p) /\ UNCHANGED <<now, breakerVars, queueVars, dedupVars, syncVars, cacheVars, laterVars>>
    \/ \E p \in PCallers : PWake(p) /\ UNCHANGED <<now, breakerVars, queueVars, dedupVars, syncVars, cacheVars, laterVars>>
    \/ \E p \in PCallers : PLookup(p) /\ UNCHANGED <<now, breakerVars, queueVars, dedupVars, syncVars, cacheVars, laterVars>>
    \/ \E p \in PCallers : PPost(p) /\ UNCHANGED <<now, breakerVars, queueVars, dedupVars, syncVars, cacheVars, laterVars>>
    \/ \E p \in PCallers : PResult(p) /\ UNCHANGED <<now, breakerVars, queueVars, dedupVars, syncVars, cacheVars, laterVars>>
    \/ \E p \in PCallers : PTimeout(p) /\ UNCHANGED <<now, breakerVars, queueVars, dedupVars, syncVars, cacheVars, laterVars>>
    \/ \E p \in PCallers : PCancelInside(p) /\ UNCHANGED <<now, breakerVars, queueVars, dedupVars, syncVars, cacheVars, laterVars>>
    \/ \E p \in PCallers : PRelease(p) /\ UNCHANGED <<now, breakerVars, queueVars, dedupVars, syncVars, cacheVars, laterVars>>

SpecPressure == Init /\ [][NextPressure]_vars

NextDedup ==
    \/ Tick /\ UNCHANGED <<breakerVars, queueVars, pressureVars, dedupVars, syncVars, cacheVars, laterVars>>
    \/ CreatePressure /\ UNCHANGED <<now, breakerVars, queueVars, dedupVars, syncVars, cacheVars, laterVars>>
    \/ \E c \in QCallers : QStart(c) /\ UNCHANGED <<now, queueVars, pressureVars, syncVars, cacheVars, laterVars>>
    \/ \E c \in QCallers : QL2Read(c) /\ UNCHANGED <<now, queueVars, pressureVars, syncVars, cacheVars, laterVars>>
    \/ \E c \in QCallers : QL2Return(c) /\ UNCHANGED <<now, queueVars, pressureVars, syncVars, cacheVars, laterVars>>
    \/ \E c \in QCallers : QL3Read(c) /\ UNCHANGED <<now, queueVars, pressureVars, syncVars, cacheVars, laterVars>>
    \/ \E c \in QCallers : QL3Return(c) /\ UNCHANGED <<now, queueVars, pressureVars, syncVars, cacheVars, laterVars>>
    \/ \E c \in QCallers : QMongoRead(c) /\ UNCHANGED <<now, queueVars, pressureVars, syncVars, cacheVars, laterVars>>
    \/ \E c \in QCallers : QMongoReturn(c) /\ UNCHANGED <<now, queueVars, pressureVars, syncVars, cacheVars, laterVars>>
    \/ \E c \in QCallers : QMongoHitRedisSet(c) /\ UNCHANGED <<now, queueVars, pressureVars, syncVars, cacheVars, laterVars>>
    \/ \E c \in QCallers : QRedisRead(c) /\ UNCHANGED <<now, queueVars, pressureVars, syncVars, cacheVars, laterVars>>
    \/ \E c \in QCallers : QRedisReturn(c) /\ UNCHANGED <<now, queueVars, pressureVars, syncVars, cacheVars, laterVars>>
    \/ \E c \in QCallers : QAwaitReturn(c) /\ UNCHANGED <<now, queueVars, pressureVars, syncVars, cacheVars, laterVars>>
    \/ \E c \in QCallers : QCallOk(c) /\ UNCHANGED <<now, queueVars, pressureVars, syncVars, cacheVars, laterVars>>
    \/ \E c \in QCallers : QCallFailed(c) /\ UNCHANGED <<now, queueVars, pressureVars, syncVars, cacheVars, laterVars>>
    \/ \E c \in QCallers : QCacheSet(c) /\ UNCHANGED <<now, queueVars, pressureVars, syncVars, cacheVars, exceptDoc>>
    \/ \E t \in QCallers : taskPc[t] = "query" /\ PAcquireEnter(t) /\ UNCHANGED <<now, breakerVars, queueVars, dedupVars, syncVars, cacheVars, laterVars>>
    \/ \E t \in QCallers : taskPc[t] = "query" /\ PAcquire(t) /\ UNCHANGED <<now, breakerVars, queueVars, dedupVars, syncVars, cacheVars, laterVars>>
    \/ \E t \in QCallers : taskPc[t] = "query" /\ PWaitForInterval(t) /\ UNCHANGED <<now, breakerVars, queueVars, dedupVars, syncVars, cacheVars, laterVars>>
    \/ \E t \in QCallers : taskPc[t] = "query" /\ PWake(t) /\ UNCHANGED <<now, breakerVars, queueVars, dedupVars, syncVars, cacheVars, laterVars>>
    \/ \E t \in QCallers : taskPc[t] = "query" /\ PLookup(t) /\ UNCHANGED <<now, breakerVars, queueVars, dedupVars, syncVars, cacheVars, laterVars>>
    \/ \E t \in QCallers : taskPc[t] = "query" /\ PResult(t) /\ UNCHANGED <<now, breakerVars, queueVars, dedupVars, syncVars, cacheVars, laterVars>>
    \/ \E t \in QCallers : taskPc[t] = "query" /\ PTimeout(t) /\ UNCHANGED <<now, breakerVars, queueVars, dedupVars, syncVars, cacheVars, laterVars>>
    \/ \E t \in QCallers : taskPc[t] = "query" /\ PRelease(t) /\ UNCHANGED <<now, breakerVars, queueVars, dedupVars, syncVars, cacheVars, laterVars>>
    \/ \E t \in QCallers : taskPc[t] = "query" /\ TPost(t) /\ UNCHANGED <<now, breakerVars, queueVars, syncVars, cacheVars, laterVars>>
    \/ \E t \in QCallers : TQueryReturn(t) /\ UNCHANGED <<now, breakerVars, queueVars, pressureVars, syncVars, cacheVars, laterVars>>
    \/ \E t \in QCallers : TFindAgainRead(t) /\ UNCHANGED <<now, breakerVars, queueVars, pressureVars, syncVars, cacheVars, laterVars>>
    \/ \E t \in QCallers : TFindAgainReturn(t) /\ UNCHANGED <<now, breakerVars, queueVars, pressureVars, syncVars, cacheVars, laterVars>>
    \/ \E t \in QCallers : TReplace(t) /\ UNCHANGED <<now, breakerVars, queueVars, pressureVars, syncVars, cacheVars, exceptDoc>>
    \/ \E t \in QCallers : TRedisSet(t) /\ UNCHANGED <<now, breakerVars, queueVars, pressureVars, syncVars, cacheVars, laterVars>>

SpecDedup == Init /\ [][NextDedup]_vars

NextCache ==
    \/ \E c \in MCallers : MGetStart(c) /\ UNCHANGED <<now, breakerVars, queueVars, pressureVars, syncVars, queryVars, laterVars>>
    \/ \E c \in MCallers : MGetL2Read(c) /\ UNCHANGED <<now, breakerVars, queueVars, pressureVars, syncVars, queryVars, laterVars>>
    \/ \E c \in MCallers : MGetL2Return(c) /\ UNCHANGED <<now, breakerVars, queueVars, pressureVars, syncVars, queryVars, laterVars>>
    \/ \E c \in MCallers : MGetL3Read(c) /\ UNCHANGED <<now, breakerVars, queueVars, pressureVars, syncVars, queryVars, laterVars>>
    \/ \E c \in MCallers : MGetL3Return(c) /\ UNCHANGED <<now, breakerVars, queueVars, pressureVars, syncVars, queryVars, laterVars>>
    \/ \E c \in MCallers : MGetL2Set(c) /\ UNCHANGED <<now, breakerVars, queueVars, pressureVars, syncVars, queryVars, laterVars>>
    \/ \E c \in MCallers : MSetStart(c) /\ UNCHANGED <<now, breakerVars, queueVars, pressureVars, syncVars, queryVars, laterVars>>
    \/ \E c \in MCallers, tier \in {"l1", "l2", "l3"} : MSetWrite(c, tier) /\ UNCHANGED <<now, breakerVars, queueVars, pressureVars, syncVars, queryVars, laterVars>>
    \/ \E k \in Keys : L1Expire(k) /\ UNCHANGED <<now, breakerVars, queueVars, pressureVars, syncVars, queryVars, laterVars>>
    \/ \E k \in Keys : L2Expire(k) /\ UNCHANGED <<now, breakerVars, queueVars, pressureVars, syncVars, queryVars, laterVars>>

SpecCache == Init /\ [][NextCache]_vars

NextTrend ==
    \/ Tick /\ UNCHANGED <<breakerVars, queueVars, pressureVars, dedupVars, syncVars, cacheVars, laterVars>>
    \/ \E pk \in TrendKeys, v \in {"none", "empty", "data"} : TrendStore(pk, v) /\ UNCHANGED <<now, queueVars, pressureVars, dedupVars, syncVars, cacheVars, exceptTrend>>
    \/ \E n \in 1..MaxTrendKeys : TrendStart(n) /\ UNCHANGED <<now, queueVars, pressureVars, dedupVars, syncVars, cacheVars, exceptTrend>>
    \/ TrendFind /\ UNCHANGED <<now, queueVars, pressureVars, dedupVars, syncVars, cacheVars, exceptTrend>>
    \/ TrendReturn /\ UNCHANGED <<now, queueVars, pressureVars, dedupVars, syncVars, cacheVars, exceptTrend>>
    \/ TrendAgain /\ UNCHANGED <<now, queueVars, pressureVars, dedupVars, syncVars, cacheVars, exceptTrend>>

SpecTrend == Init /\ [][NextTrend]_vars

earlierVars == <<breakerVars, queueVars, pressureVars, dedupVars, syncVars, cacheVars>>

NextWebhook ==
    \/ Tick /\ UNCHANGED <<earlierVars, laterVars>>
    \/ \E h \in Handlers, secret \in BOOLEAN, sig \in Signatures, status \in Statuses :
          WebhookPost(h, secret, sig, status) /\ UNCHANGED <<now, earlierVars, exceptWeb>>
    \/ DStart /\ UNCHANGED <<now, earlierVars, exceptWeb>>
    \/ DGet /\ UNCHANGED <<now, earlierVars, exceptWeb>>
    \/ \E ok \in BOOLEAN : DDelete(ok) /\ UNCHANGED <<now, earlierVars, exceptWeb>>
    \/ DSleep /\ UNCHANGED <<now, earlierVars, exceptWeb>>

SpecWebhook == Init /\ [][NextWebhook]_vars

NextMetrics ==
    \/ \E c \in RecCallers, success \in BOOLEAN :
          RecordGlobal(c, success) /\ UNCHANGED <<now, earlierVars, exceptMetrics>>
    \/ \E c \in RecCallers : RecordDaily(c) /\ UNCHANGED <<now, earlierVars, exceptMetrics>>
    \/ MetricsReset /\ UNCHANGED <<now, earlierVars, exceptMetrics>>
    \/ \E n \in {1, MetricsMaxDays + 1} : DayAdvance(n) /\ UNCHANGED <<now, earlierVars, exceptMetrics>>

SpecMetrics == Init /\ [][NextMetrics]_vars

notBreakerVars == <<queueVars, pressureVars, dedupVars, syncVars, cacheVars>>

NextRetry ==
    \/ Tick /\ UNCHANGED <<earlierVars, laterVars>>
    \/ \E budget \in 1..MaxAttempts : RetryStart(budget) /\ UNCHANGED <<now, notBreakerVars, exceptRetry>>
    \/ RetryAttempt /\ UNCHANGED <<now, notBreakerVars, exceptRetry>>
    \/ \E res \in FetchResults : RetryFetch(res) /\ UNCHANGED <<now, notBreakerVars, exceptRetry>>
    \/ RetryWake /\ UNCHANGED <<now, notBreakerVars, exceptRetry>>
    \/ RetryAgain /\ UNCHANGED <<now, notBreakerVars, exceptRetry>>

SpecRetry == Init /\ [][NextRetry]_vars

NextJobs ==
    \/ Tick /\ UNCHANGED <<earlierVars, laterVars>>
    \/ \E fn \in SchedulerJobs, mongoOk \in BOOLEAN :
          JobStart(fn, mongoOk) /\ UNCHANGED <<now, earlierVars, exceptJobs>>
    \/ \E res \in StepResults : JobStepRun(res) /\ UNCHANGED <<now, earlierVars, exceptJobs>>
    \/ \E mongoOk \in BOOLEAN : JobRecord(mongoOk) /\ UNCHANGED <<now, earlierVars, exceptJobs>>
    \/ \E mongoOk \in BOOLEAN : JobFinish(mongoOk) /\ UNCHANGED <<now, earlierVars, exceptJobs>>
    \/ JobIdle /\ UNCHANGED <<now, earlierVars, exceptJobs>>

SpecJobs == Init /\ [][NextJobs]_vars

NextAlert ==
    \/ AlertTick /\ UNCHANGED <<now, earlierVars, exceptAlert>>
    \/ \E avg \in AvgDurations : CheckHighLatency(avg) /\ UNCHANGED <<now, earlierVars, exceptAlert>>

SpecAlert == Init /\ [][NextAlert]_vars

NextL1Cache ==
    \/ \E i \in L1Identities : L1Get(i) /\ UNCHANGED <<now, earlierVars, exceptL1c>>
    \/ \E i \in L1Identities, v \in L1Values :
          L1Set(i, v) /\ UNCHANGED <<now, earlierVars, exceptL1c>>
    \/ \E i \in L1Identities : L1Delete(i) /\ UNCHANGED <<now, earlierVars, exceptL1c>>
    \/ L1Clear /\ UNCHANGED <<now, earlierVars, exceptL1c>>

SpecL1Cache == Init /\ [][NextL1Cache]_vars

NextPeriod ==
    /\ pkGranularity = "none"
    /\ \E g \in Granularities, start_date \in PkInputDates, end_date \in PkInputDates :
        /\ TupleLeq(start_date, end_date)
        /\ g = "day" => MonthsApart(start_date, end_date) <= MaxDayMonths
        /\ PeriodKeysCall(g, start_date, end_date)
        /\ UNCHANGED <<now, earlierVars, exceptPeriod>>

SpecPeriod == Init /\ [][NextPeriod]_vars

NextInflight ==
    \/ \E c \in FCallers, req \in FRequests :
          FetchCall(c, req) /\ UNCHANGED <<now, earlierVars, exceptInflight>>
    \/ \E t \in FCallers : FetchTaskDone(t) /\ UNCHANGED <<now, earlierVars, exceptInflight>>
    \/ \E c \in FCallers : FetchReturn(c) /\ UNCHANGED <<now, earlierVars, exceptInflight>>

SpecInflight == Init /\ [][NextInflight]_vars

NextSync ==
    \/ \E l \in SyncStarters, fn \in JobFns :
          SStart(l, fn) /\ UNCHANGED <<now, breakerVars, queueVars, pressureVars, dedupVars, cacheVars, laterVars>>
    \/ \E l \in SyncStarters :
          SGuard(l) /\ UNCHANGED <<now, breakerVars, queueVars, pressureVars, dedupVars, cacheVars, laterVars>>
    \/ \E l \in SyncStarters :
          SCreate(l) /\ UNCHANGED <<now, breakerVars, queueVars, pressureVars, dedupVars, cacheVars, laterVars>>
    \/ \E l \in SyncStarters :
          SCount(l) /\ UNCHANGED <<now, breakerVars, queueVars, pressureVars, dedupVars, cacheVars, laterVars>>
    \/ \E l \in SyncStarters :
          SSelfCancel(l) /\ UNCHANGED <<now, breakerVars, queueVars, pressureVars, dedupVars, cacheVars, laterVars>>
    \/ \E l \in SyncStarters, ok \in BOOLEAN :
          SIterBody(l, ok) /\ UNCHANGED <<now, breakerVars, queueVars, pressureVars, dedupVars, cacheVars, laterVars>>
    \/ \E l \in SyncStarters :
          SFinish(l) /\ UNCHANGED <<now, breakerVars, queueVars, pressureVars, dedupVars, cacheVars, laterVars>>
    \/ \E l \in SyncStarters :
          CancelUpdate(l) /\ UNCHANGED <<now, breakerVars, queueVars, pressureVars, dedupVars, cacheVars, laterVars>>
    \/ CancelMark /\ UNCHANGED <<now, breakerVars, queueVars, pressureVars, dedupVars, cacheVars, laterVars>>
    \/ \E l \in SyncStarters :
          CancelRefused(l) /\ UNCHANGED <<now, breakerVars, queueVars, pressureVars, dedupVars, cacheVars, laterVars>>
    \/ CancelReturnFailure /\ UNCHANGED <<now, breakerVars, queueVars, pressureVars, dedupVars, cacheVars, laterVars>>

SpecSync == Init /\ [][NextSync]_vars

\* one started job function taken to its next await: the event loop resumes
\* every coroutine whose Mongo command or sleep has completed
JobStep(l) ==
    /\ sPc[l] \notin {"idle", "returned"}
    /\ NextSync
    /\ sPc'[l] # sPc[l] \/ sCat'[l] # sCat[l] \/ sPhase'[l] # sPhase[l]

\* the sync task log with every started job and every cancel call running on
SpecSyncRun ==
    /\ Init /\ [][NextSync]_vars
    /\ \A l \in SyncStarters : WF_vars(JobStep(l))
    /\ WF_vars(CancelMark /\ UNCHANGED <<now, breakerVars, queueVars, pressureVars, dedupVars, cacheVars, laterVars>>)

=============================================================================
